---- MODULE Spec2Model ----
(***************************************************************************)
(* A model of the EPG cache, the EPG lookups, the stream-to-channel        *)
(* matching, the API client, the image cache, the favorites and the shared *)
(* config file, the player wrapper, the login and the content loading of   *)
(* ChumpStreams.                                                           *)
(*                                                                         *)
(* Spec       the two-tier EPG cache (chumpstreams_epg.py) driven by       *)
(*            background fetch threads (chumpstreams_epg_manager.py) and   *)
(*            by the UI thread (clear_cache, lookups).                     *)
(* SpecApi    the rate limiter and the logged_in guards of ApiClient.      *)
(* SpecLookup get_channel_epg / get_current_program / get_next_program.    *)
(* SpecMap    map_stream_to_epg.                                           *)
(* SpecImg    ImageCache: get_pixmap / download_image and the download     *)
(*            threads (chumpstreams_image_cache.py).                       *)
(* SpecFav    FavoritesManager and the writers of the shared config file.  *)
(* SpecPlayer QtVlcPlayer.play / close and the processes they start.       *)
(* SpecAuth   AuthenticationManager.login / logout with ApiClient.login.   *)
(* SpecApp    ChumpStreamsApp login / logout with the EPG handler and the  *)
(*            playback manager.                                            *)
(* SpecContent category selections and the content loads of the thread    *)
(*            pool.                                                        *)
(*                                                                         *)
(* EPG data is abstracted to the number of the server fetch that produced  *)
(* it: Empty (0) is the empty dict {}, v > 0 is the result of the v-th     *)
(* successful parse of a server response.                                  *)
(***************************************************************************)
EXTENDS Integers, Sequences, FiniteSets, TLC

VARIABLES
    now,             \* time.time(), in seconds
    ticks,           \* number of clock advances so far (bounds the run)
    epg_cache,       \* EPGManager.epg_cache
    epg_cache_time,  \* EPGManager.epg_cache_time
    channels,        \* EPGManager.channels
    programs,        \* EPGManager.programs
    cache_file,      \* the file epg_cache.json
    nextVer,         \* number of the next server result
    fetchedAt,       \* fetchedAt[v]: when result v was obtained from the server
    thr,             \* the background fetch threads
    ui,              \* the UI thread (clear_cache)
    clearedBelow,    \* results below this number were fetched before the last clear
    sinceClear,      \* "none" | "cleared" | "fetched": fetches started since the clear
    emitted,         \* the signal the fetch thread that ended last emitted, if no fetch started since
    apiClock,        \* time.time() as ApiClient reads it, in milliseconds
    apiTicks,        \* number of advances of apiClock so far (bounds the run)
    logged_in,       \* ApiClient.logged_in
    last_request_time, \* ApiClient.last_request_time
    api,             \* the threads that call the ApiClient
    lastRequestAt,   \* when the most recent HTTP request started
    lastGap,         \* the time between the two most recent HTTP requests
    lastCall,        \* the ApiClient call that returned last
    loggedOut,       \* logout has ended a session
    channel_programs, \* EPGManager.programs[KnownId]: the programmes of one channel
    lookup,          \* the lookup that returned last
    channel_dict,    \* EPGManager.channels as a list of [id, name], in dict order
    channel_mappings, \* EPGManager.channel_mappings, as a set of <<stream name, id>>
    mapped,          \* the map_stream_to_epg call that returned last, and the
                     \* mappings it was made with
    loading,         \* ImageCache._loading: the URLs marked as being downloaded
    img_file,        \* img_file[url]: the cached file of the URL
    dl,              \* the download threads of the ImageCache
    favorites,       \* FavoritesManager.favorites
    config,          \* the shared config file, as the favorites code sees it
    favCall,         \* the favorites / settings / credentials call that returned last
    cleanStart,      \* the list was duplicate-free when it was loaded or last migrated
    process,         \* QtVlcPlayer.process: 0 for None, else the process started last
    started,         \* the processes QtVlcPlayer started: pid -> state
    playerCall,      \* the play / close call that returned last
    session,         \* ApiClient: username, password, logged_in, base_url
    auth,            \* AuthenticationManager.auth
    current_service, \* AuthenticationManager.current_service
    saved,           \* config file: 'credentials', service key -> saved username
    last_service,    \* config file: 'last_service'
    accepted,        \* username, password and server of the last successful login
    loginCall,       \* the login / logout call that returned last
    epg_handler,     \* EPGManager: base_url, and the attribute server that _login assigns
    playback,        \* PlaybackManager: SERVER / USE_HTTPS, the attribute server, auth
    epg_store,       \* whose EPG data the memory cache and the cache file hold
    lastUse,         \* the request, EPG fetch or play call made last since the last login / logout

    \* ChumpStreamsApp content loading (chumpstreams_app.py, chumpstreams_content.py)
    app_content_type, \* ChumpStreamsApp.content_type
    content_items,    \* ChumpStreamsApp.content_items
    panel,            \* window.content_panel: content_type and content_items shown
    timers,           \* content types with a pending QTimer.singleShot(_update_categories_for_type)
    loads,            \* ContentWorkers handed to the thread pool and not yet finished
    category_request  \* history: the latest selection, when it asked for a category, and what became of its load

epgVars == <<now, ticks, epg_cache, epg_cache_time, channels, programs, cache_file,
             nextVer, fetchedAt, thr, ui, clearedBelow, sinceClear, emitted>>

apiVars == <<apiClock, apiTicks, logged_in, last_request_time, api, lastRequestAt,
             lastGap, lastCall, loggedOut>>

lookupVars == <<channel_programs, lookup>>

mapVars == <<channel_dict, channel_mappings, mapped>>

imgVars == <<loading, img_file, dl>>

favVars == <<favorites, config, favCall, cleanStart>>

playerVars == <<process, started, playerCall>>

authVars == <<session, auth, current_service, saved, last_service, accepted, loginCall>>

appVars == <<epg_handler, playback, epg_store, lastUse>>

contentVars == <<app_content_type, content_items, panel, timers, loads, category_request>>

vars == <<epgVars, apiVars, lookupVars, mapVars, imgVars, favVars, playerVars, authVars, appVars, contentVars>>

\* What the actions of one part of the model leave alone.
otherThanEpg == <<apiVars, lookupVars, mapVars, imgVars, favVars, playerVars, authVars, appVars, contentVars>>

otherThanApi == <<epgVars, lookupVars, mapVars, imgVars, favVars, playerVars, authVars, appVars, contentVars>>

otherThanLookup == <<epgVars, apiVars, mapVars, imgVars, favVars, playerVars, authVars, appVars, contentVars>>

otherThanMap == <<epgVars, apiVars, lookupVars, imgVars, favVars, playerVars, authVars, appVars, contentVars>>

otherThanImg == <<epgVars, apiVars, lookupVars, mapVars, favVars, playerVars, authVars, appVars, contentVars>>

otherThanFav == <<epgVars, apiVars, lookupVars, mapVars, imgVars, playerVars, authVars, appVars, contentVars>>

otherThanPlayer == <<epgVars, apiVars, lookupVars, mapVars, imgVars, favVars, authVars, appVars, contentVars>>

otherThanAuth == <<epgVars, apiVars, lookupVars, mapVars, imgVars, favVars, playerVars, appVars, contentVars>>

otherThanApp == <<epgVars, apiVars, lookupVars, mapVars, imgVars, favVars, playerVars, authVars, contentVars>>

otherThanAuthApp == <<epgVars, apiVars, lookupVars, mapVars, imgVars, favVars, playerVars, contentVars>>

otherThanAuthAppContent == <<epgVars, apiVars, lookupVars, mapVars, imgVars, favVars, playerVars>>

otherThanContent == <<epgVars, apiVars, lookupVars, mapVars, imgVars, favVars, playerVars, authVars, appVars>>

---------------------------------------------------------------------------
(* Program constants                                                       *)

epg_cache_duration == 3600

file_cache_duration == 86400

(* Bounds of the model                                                     *)

MaxTicks == 2

MaxFetch == 2

Empty == 0

Threads == {"t1", "t2"}

\* The clock advances by half the memory TTL or by the file TTL minus that,
\* so that ages of exactly one TTL (and just below) are reached.
ShortStep == epg_cache_duration \div 2

LongStep == file_cache_duration - ShortStep

ClockSteps == {ShortStep, LongStep}

\* The clock starts far enough from 0 that a timestamp of 0 (never cached) is
\* older than both TTLs, as it is for time.time().
Epoch == 2 * file_cache_duration

Versions == 0..MaxFetch

---------------------------------------------------------------------------
(* The cache file                                                          *)

\* No file on disk.
NoFile == [exists |-> FALSE, readable |-> TRUE, timestamp |-> 0, epg_data |-> Empty]

\* _save_epg_to_cache_file: {"timestamp": time.time(), "epg_data": epg_data}
SavedFile(t, data) ==
    [exists |-> TRUE, readable |-> TRUE, timestamp |-> t, epg_data |-> data]

\* Mutant of MemoryCacheValid: a cache of exactly the TTL's age still counts.
MemoryCacheValid_Inclusive(cache, cacheTime, t) ==
    cache # Empty /\ (t - cacheTime) <= epg_cache_duration

\* fetch_epg_data line 125: a non-empty in-memory cache younger than its TTL
MemoryCacheValid(cache, cacheTime, t) ==
    cache # Empty /\ (t - cacheTime) < epg_cache_duration

\* _load_epg_from_cache_file line 96: the file is younger than its TTL
FileCacheFresh(f, t) == (t - f.timestamp) < file_cache_duration

\* _load_epg_from_cache_file lines 84-114, the part that decides whether the
\* file's data is loaded: the file exists, json.load succeeds, and it is fresh.
FileLoads(f, t) == f.exists /\ f.readable /\ FileCacheFresh(f, t)

---------------------------------------------------------------------------
(* Fetch threads                                                           *)

\* No fetch thread has emitted a signal since the last fetch was started
NoSignal == [signal |-> "none", empty |-> FALSE]

IdleThread ==
    [pc |-> "idle", force |-> FALSE, creds |-> FALSE, data |-> Empty,
     result |-> Empty, callTime |-> 0, contacted |-> FALSE,
     memSeen |-> "unseen", fileSeen |-> "unseen", expected |-> Empty,
     afterClear |-> FALSE]

\* Threads are interchangeable; a new fetch takes the first idle one.
ThreadBefore(u, t) == u = "t1" /\ t = "t2"

AllIdle == \A t \in Threads : thr[t].pc = "idle"

EpgInit ==
    /\ now = Epoch
    /\ ticks = 0
    /\ epg_cache = Empty
    /\ epg_cache_time = 0
    /\ channels = Empty
    /\ programs = Empty
    /\ cache_file = NoFile
    /\ nextVer = 1
    /\ fetchedAt = [v \in 1..MaxFetch |-> 0]
    /\ thr = [t \in Threads |-> IdleThread]
    /\ ui = [pc |-> "idle", clean |-> FALSE, ret |-> "none"]
    /\ clearedBelow = 0
    /\ sinceClear = "none"
    /\ emitted = NoSignal

\* A thread that is between two statements of a fetch (not idle, not blocked in
\* the HTTP request, not back in its caller).
Running(t) == thr[t].pc \notin {"idle", "server", "done"}

\* The clock advances, by half an hour or more: that happens while the threads
\* are idle or blocked in the request, not between two statements of a call.
Tick ==
    /\ ticks < MaxTicks
    /\ ui.pc = "idle"
    /\ \A t \in Threads : ~Running(t)
    /\ \E d \in ClockSteps : now' = now + d
    /\ ticks' = ticks + 1
    /\ UNCHANGED <<epg_cache, epg_cache_time, channels, programs, cache_file,
                   nextVer, fetchedAt, thr, ui, clearedBelow, sinceClear>>
    /\ UNCHANGED emitted
    /\ UNCHANGED otherThanEpg

---------------------------------------------------------------------------
(* History kept for the claims: what a call observed, in the words of the  *)
(* specification (observations only; no action's guard reads them).        *)

\* "the in-memory cache is empty or at least 3600 s old"
ObservedMemoryMiss(cache, cacheTime, t) ==
    cache = Empty \/ t - cacheTime >= epg_cache_duration

\* "the cache file is missing, unreadable, at least 86400 s old or holds empty data"
ObservedFileMiss(f, t) ==
    \/ ~f.exists
    \/ ~f.readable
    \/ t - f.timestamp >= file_cache_duration
    \/ f.epg_data = Empty

MemoryObservation ==
    IF ObservedMemoryMiss(epg_cache, epg_cache_time, now) THEN "miss" ELSE "hit"

FileObservation ==
    IF ObservedFileMiss(cache_file, now) THEN "miss" ELSE "hit"

---------------------------------------------------------------------------
(* EPGManager.fetch_epg_data, one step per statement that reads or writes  *)
(* shared state                                                            *)

\* chumpstreams_epg_manager.py fetch_epg_data / _fetch_epg_data_thread: the UI
\* thread starts a thread that calls fetch_epg_data(username, password,
\* force_refresh); lines 119-121 send a forced call straight to the server.
StartFetch(t, force, creds) ==
    /\ thr[t].pc = "idle"
    /\ \A u \in Threads : ThreadBefore(u, t) => thr[u].pc # "idle"
    /\ ui.pc = "idle"
    /\ thr' = [thr EXCEPT ![t] =
                 [IdleThread EXCEPT !.pc = IF force THEN "server" ELSE "memcheck",
                                    !.force = force,
                                    !.creds = creds,
                                    !.callTime = now,
                                    !.afterClear = (sinceClear = "cleared")]]
    /\ sinceClear' = IF sinceClear = "cleared" THEN "fetched" ELSE sinceClear
    /\ UNCHANGED <<now, ticks, epg_cache, epg_cache_time, channels, programs,
                   cache_file, nextVer, fetchedAt, ui, clearedBelow>>
    /\ emitted' = NoSignal
    /\ UNCHANGED otherThanEpg

\* fetch_epg_data lines 124-127
MemCheck(t) ==
    /\ thr[t].pc = "memcheck"
    /\ thr' = [thr EXCEPT ![t] =
                 IF MemoryCacheValid(epg_cache, epg_cache_time, now)
                 THEN [@ EXCEPT !.pc = "done", !.result = epg_cache,
                                !.memSeen = MemoryObservation,
                                !.expected = epg_cache]
                 ELSE [@ EXCEPT !.pc = "file_read",
                                !.memSeen = MemoryObservation]]
    /\ UNCHANGED <<now, ticks, epg_cache, epg_cache_time, channels, programs,
                   cache_file, nextVer, fetchedAt, ui, clearedBelow, sinceClear>>
    /\ UNCHANGED emitted
    /\ UNCHANGED otherThanEpg

\* _load_epg_from_cache_file lines 84-100 and 109-114: no file, an unreadable
\* file and a stale file give None (on to the server); otherwise epg_data is
\* read and stored field by field.
FileRead(t) ==
    /\ thr[t].pc = "file_read"
    /\ thr' = [thr EXCEPT ![t] =
                 IF FileLoads(cache_file, now)
                 THEN [@ EXCEPT !.pc = "ld_channels", !.data = cache_file.epg_data,
                                !.fileSeen = FileObservation,
                                !.expected = cache_file.epg_data]
                 ELSE [@ EXCEPT !.pc = "server",
                                !.fileSeen = FileObservation]]
    /\ UNCHANGED <<now, ticks, epg_cache, epg_cache_time, channels, programs,
                   cache_file, nextVer, fetchedAt, ui, clearedBelow, sinceClear>>
    /\ UNCHANGED emitted
    /\ UNCHANGED otherThanEpg

\* line 101: self.channels = epg_data.get("channels", {})
LoadChannels(t) ==
    /\ thr[t].pc = "ld_channels"
    /\ channels' = thr[t].data
    /\ thr' = [thr EXCEPT ![t].pc = "ld_programs"]
    /\ UNCHANGED <<now, ticks, epg_cache, epg_cache_time, programs, cache_file,
                   nextVer, fetchedAt, ui, clearedBelow, sinceClear>>
    /\ UNCHANGED emitted
    /\ UNCHANGED otherThanEpg

\* line 102: self.programs = epg_data.get("programs", {})
LoadPrograms(t) ==
    /\ thr[t].pc = "ld_programs"
    /\ programs' = thr[t].data
    /\ thr' = [thr EXCEPT ![t].pc = "ld_cache"]
    /\ UNCHANGED <<now, ticks, epg_cache, epg_cache_time, channels, cache_file,
                   nextVer, fetchedAt, ui, clearedBelow, sinceClear>>
    /\ UNCHANGED emitted
    /\ UNCHANGED otherThanEpg

\* line 105: self.epg_cache = epg_data
LoadCache(t) ==
    /\ thr[t].pc = "ld_cache"
    /\ epg_cache' = thr[t].data
    /\ thr' = [thr EXCEPT ![t].pc = "ld_time"]
    /\ UNCHANGED <<now, ticks, epg_cache_time, channels, programs, cache_file,
                   nextVer, fetchedAt, ui, clearedBelow, sinceClear>>
    /\ UNCHANGED emitted
    /\ UNCHANGED otherThanEpg

\* lines 106-108 and fetch_epg_data 131-135: self.epg_cache_time = time.time();
\* the loaded data is returned if it is truthy, an empty dict sends the call on
\* to the server.
LoadTime(t) ==
    /\ thr[t].pc = "ld_time"
    /\ epg_cache_time' = now
    /\ thr' = [thr EXCEPT ![t] =
                 IF thr[t].data # Empty
                 THEN [@ EXCEPT !.pc = "done", !.result = thr[t].data]
                 ELSE [@ EXCEPT !.pc = "server"]]
    /\ UNCHANGED <<now, ticks, epg_cache, channels, programs, cache_file,
                   nextVer, fetchedAt, ui, clearedBelow, sinceClear>>
    /\ UNCHANGED emitted
    /\ UNCHANGED otherThanEpg

\* _fetch_epg_from_server lines 139-141: missing credentials, no request
ServerNoCredentials(t) ==
    /\ thr[t].pc = "server"
    /\ ~thr[t].creds
    /\ thr' = [thr EXCEPT ![t].pc = "done", ![t].result = Empty]
    /\ UNCHANGED <<now, ticks, epg_cache, epg_cache_time, channels, programs,
                   cache_file, nextVer, fetchedAt, ui, clearedBelow, sinceClear>>
    /\ UNCHANGED emitted
    /\ UNCHANGED otherThanEpg

\* lines 151-155, 158-173, 183-185: the request is made and fails (exception,
\* status other than 200, an empty or JSON-looking body): {} is returned
ServerRequestFails(t) ==
    /\ thr[t].pc = "server"
    /\ thr[t].creds
    /\ thr' = [thr EXCEPT ![t].pc = "done", ![t].result = Empty,
                          ![t].contacted = TRUE]
    /\ UNCHANGED <<now, ticks, epg_cache, epg_cache_time, channels, programs,
                   cache_file, nextVer, fetchedAt, ui, clearedBelow, sinceClear>>
    /\ UNCHANGED emitted
    /\ UNCHANGED otherThanEpg

\* lines 151-176 with _parse_xmltv 189-232 (or _parse_channel_list 260-286):
\* the response parses into a new result, stored field by field
ServerRequestParses(t) ==
    /\ thr[t].pc = "server"
    /\ thr[t].creds
    /\ nextVer <= MaxFetch
    /\ thr' = [thr EXCEPT ![t].pc = "sv_channels", ![t].data = nextVer,
                          ![t].contacted = TRUE]
    /\ fetchedAt' = [fetchedAt EXCEPT ![nextVer] = now]
    /\ nextVer' = nextVer + 1
    /\ UNCHANGED <<now, ticks, epg_cache, epg_cache_time, channels, programs,
                   cache_file, ui, clearedBelow, sinceClear>>
    /\ UNCHANGED emitted
    /\ UNCHANGED otherThanEpg

\* line 176 with _parse_xmltv 251-256: the XML does not parse, _parse_xmltv
\* returns {} and line 179 saves that {} to the cache file
ServerParseError(t) ==
    /\ thr[t].pc = "server"
    /\ thr[t].creds
    /\ thr' = [thr EXCEPT ![t].pc = "sv_save", ![t].data = Empty,
                          ![t].contacted = TRUE]
    /\ UNCHANGED <<now, ticks, epg_cache, epg_cache_time, channels, programs,
                   cache_file, nextVer, fetchedAt, ui, clearedBelow, sinceClear>>
    /\ UNCHANGED emitted
    /\ UNCHANGED otherThanEpg

\* _parse_xmltv line 235: self.channels = channels
StoreChannels(t) ==
    /\ thr[t].pc = "sv_channels"
    /\ channels' = thr[t].data
    /\ thr' = [thr EXCEPT ![t].pc = "sv_programs"]
    /\ UNCHANGED <<now, ticks, epg_cache, epg_cache_time, programs, cache_file,
                   nextVer, fetchedAt, ui, clearedBelow, sinceClear>>
    /\ UNCHANGED emitted
    /\ UNCHANGED otherThanEpg

\* _parse_xmltv line 236: self.programs = programs
StorePrograms(t) ==
    /\ thr[t].pc = "sv_programs"
    /\ programs' = thr[t].data
    /\ thr' = [thr EXCEPT ![t].pc = "sv_cache"]
    /\ UNCHANGED <<now, ticks, epg_cache, epg_cache_time, channels, cache_file,
                   nextVer, fetchedAt, ui, clearedBelow, sinceClear>>
    /\ UNCHANGED emitted
    /\ UNCHANGED otherThanEpg

\* _parse_xmltv line 245: self.epg_cache = result
StoreCache(t) ==
    /\ thr[t].pc = "sv_cache"
    /\ epg_cache' = thr[t].data
    /\ thr' = [thr EXCEPT ![t].pc = "sv_time"]
    /\ UNCHANGED <<now, ticks, epg_cache_time, channels, programs, cache_file,
                   nextVer, fetchedAt, ui, clearedBelow, sinceClear>>
    /\ UNCHANGED emitted
    /\ UNCHANGED otherThanEpg

\* _parse_xmltv line 246: self.epg_cache_time = time.time()
StoreTime(t) ==
    /\ thr[t].pc = "sv_time"
    /\ epg_cache_time' = now
    /\ thr' = [thr EXCEPT ![t].pc = "sv_save"]
    /\ UNCHANGED <<now, ticks, epg_cache, channels, programs, cache_file,
                   nextVer, fetchedAt, ui, clearedBelow, sinceClear>>
    /\ UNCHANGED emitted
    /\ UNCHANGED otherThanEpg

\* _fetch_epg_from_server lines 179-181 with _save_epg_to_cache_file 67-77:
\* the file is written with the current time and the data; the data is returned
SaveFile(t) ==
    /\ thr[t].pc = "sv_save"
    /\ cache_file' = SavedFile(now, thr[t].data)
    /\ thr' = [thr EXCEPT ![t].pc = "done", ![t].result = thr[t].data]
    /\ UNCHANGED <<now, ticks, epg_cache, epg_cache_time, channels, programs,
                   nextVer, fetchedAt, ui, clearedBelow, sinceClear>>
    /\ UNCHANGED emitted
    /\ UNCHANGED otherThanEpg

\* _save_epg_to_cache_file 78-80: the write raises (open fails), the file is
\* as before; the data is returned all the same
SaveFileFails(t) ==
    /\ thr[t].pc = "sv_save"
    /\ thr' = [thr EXCEPT ![t].pc = "done", ![t].result = thr[t].data]
    /\ UNCHANGED <<now, ticks, epg_cache, epg_cache_time, channels, programs,
                   cache_file, nextVer, fetchedAt, ui, clearedBelow, sinceClear>>
    /\ UNCHANGED emitted
    /\ UNCHANGED otherThanEpg

\* fetch_epg_data has returned to _fetch_epg_data_thread (line 47), which
\* counts the channels of the result and emits epg_loaded (lines 49-54); the
\* except branch with epg_error (lines 57-60) needs fetch_epg_data to raise,
\* and every failure in it is caught and turned into {}
FetchReturns(t) ==
    /\ thr[t].pc = "done"
    /\ thr' = [thr EXCEPT ![t] = IdleThread]
    /\ UNCHANGED <<now, ticks, epg_cache, epg_cache_time, channels, programs,
                   cache_file, nextVer, fetchedAt, ui, clearedBelow, sinceClear>>
    /\ emitted' = [signal |-> "epg_loaded", empty |-> (thr[t].result = Empty)]
    /\ UNCHANGED otherThanEpg

FetchStep(t) ==
    \/ MemCheck(t)
    \/ FileRead(t)
    \/ LoadChannels(t)
    \/ LoadPrograms(t)
    \/ LoadCache(t)
    \/ LoadTime(t)
    \/ ServerNoCredentials(t)
    \/ ServerRequestFails(t)
    \/ ServerRequestParses(t)
    \/ ServerParseError(t)
    \/ StoreChannels(t)
    \/ StorePrograms(t)
    \/ StoreCache(t)
    \/ StoreTime(t)
    \/ SaveFile(t)
    \/ SaveFileFails(t)
    \/ FetchReturns(t)

---------------------------------------------------------------------------
(* EPGManager.clear_cache, on the UI thread                                *)

\* line 533: self.epg_cache = {}
ClearStart ==
    /\ ui.pc = "idle"
    /\ epg_cache' = Empty
    /\ ui' = [pc |-> "clr_time", clean |-> AllIdle, ret |-> "none"]
    /\ UNCHANGED <<now, ticks, epg_cache_time, channels, programs, cache_file,
                   nextVer, fetchedAt, thr, clearedBelow, sinceClear>>
    /\ UNCHANGED emitted
    /\ UNCHANGED otherThanEpg

\* line 534: self.epg_cache_time = 0
ClearTime ==
    /\ ui.pc = "clr_time"
    /\ epg_cache_time' = 0
    /\ ui' = [ui EXCEPT !.pc = "clr_channels"]
    /\ UNCHANGED <<now, ticks, epg_cache, channels, programs, cache_file,
                   nextVer, fetchedAt, thr, clearedBelow, sinceClear>>
    /\ UNCHANGED emitted
    /\ UNCHANGED otherThanEpg

\* line 535: self.channels = {}
ClearChannels ==
    /\ ui.pc = "clr_channels"
    /\ channels' = Empty
    /\ ui' = [ui EXCEPT !.pc = "clr_programs"]
    /\ UNCHANGED <<now, ticks, epg_cache, epg_cache_time, programs, cache_file,
                   nextVer, fetchedAt, thr, clearedBelow, sinceClear>>
    /\ UNCHANGED emitted
    /\ UNCHANGED otherThanEpg

\* line 536: self.programs = {}
ClearPrograms ==
    /\ ui.pc = "clr_programs"
    /\ programs' = Empty
    /\ ui' = [ui EXCEPT !.pc = "clr_file"]
    /\ UNCHANGED <<now, ticks, epg_cache, epg_cache_time, channels, cache_file,
                   nextVer, fetchedAt, thr, clearedBelow, sinceClear>>
    /\ UNCHANGED emitted
    /\ UNCHANGED otherThanEpg

\* Mutant of ClearFile: True is returned but the file is left on disk.
ClearFile_KeepsFile ==
    /\ ui.pc = "clr_file"
    /\ ui' = [ui EXCEPT !.pc = "idle", !.ret = "True"]
    /\ clearedBelow' = IF ui.clean THEN nextVer ELSE clearedBelow
    /\ sinceClear' = IF ui.clean THEN "cleared" ELSE sinceClear
    /\ UNCHANGED <<now, ticks, epg_cache, epg_cache_time, channels, programs,
                   cache_file, nextVer, fetchedAt, thr>>
    /\ UNCHANGED emitted
    /\ UNCHANGED otherThanEpg

\* lines 539-543 and 547: the file is removed if it exists; True is returned
ClearFile ==
    /\ ui.pc = "clr_file"
    /\ cache_file' = NoFile
    /\ ui' = [ui EXCEPT !.pc = "idle", !.ret = "True"]
    /\ clearedBelow' = IF ui.clean THEN nextVer ELSE clearedBelow
    /\ sinceClear' = IF ui.clean THEN "cleared" ELSE sinceClear
    /\ UNCHANGED <<now, ticks, epg_cache, epg_cache_time, channels, programs,
                   nextVer, fetchedAt, thr>>
    /\ UNCHANGED emitted
    /\ UNCHANGED otherThanEpg

\* lines 544-546: os.remove raises, the file stays; False is returned
ClearFileFails ==
    /\ ui.pc = "clr_file"
    /\ cache_file.exists
    /\ ui' = [ui EXCEPT !.pc = "idle", !.ret = "False"]
    /\ UNCHANGED <<now, ticks, epg_cache, epg_cache_time, channels, programs,
                   cache_file, nextVer, fetchedAt, thr, clearedBelow, sinceClear>>
    /\ UNCHANGED emitted
    /\ UNCHANGED otherThanEpg

\* The cache file is damaged outside the program (json.load will raise).
FileCorrupted ==
    /\ cache_file.exists
    /\ cache_file.readable
    /\ cache_file' = [cache_file EXCEPT !.readable = FALSE]
    /\ UNCHANGED <<now, ticks, epg_cache, epg_cache_time, channels, programs,
                   nextVer, fetchedAt, thr, ui, clearedBelow, sinceClear>>
    /\ UNCHANGED emitted
    /\ UNCHANGED otherThanEpg

---------------------------------------------------------------------------
(* ApiClient (api_client.py): the logged_in guards and the rate limiter    *)

request_delay == 500

MaxApiTicks == 2

\* apiClock advances by half the request delay; it starts away from 0, as
\* time.time() does, so that the initial last_request_time of 0 is long ago.
ApiStep == request_delay \div 2

ApiEpoch == 2 * request_delay

NoTime == 0 - 1

\* The UI thread ("main") logs in and out, loads the categories, builds stream
\* URLs and searches; a worker of the thread pools (ContentWorker, InfoWorker)
\* loads categories, streams and info on the same ApiClient.
ApiThreads == {"main", "w1"}

\* Methods that return a list ([] when not logged in)
ListOps == {"get_categories", "get_live_streams", "get_vod_streams", "get_series", "search"}

\* Methods that return an object or a URL (None when not logged in)
InfoOps == {"get_series_info", "get_vod_info"}

UrlOps == {"get_live_stream_url", "get_vod_stream_url", "get_series_stream_url"}

\* Methods that send one HTTP request through _wait_for_rate_limit
HttpOps == {"get_categories", "get_live_streams", "get_vod_streams", "get_series",
            "get_series_info", "get_vod_info"}

OpsOf(t) ==
    IF t = "main"
    THEN {"login", "get_categories", "search"} \cup UrlOps
    ELSE HttpOps

\* search calls get_live_streams, get_vod_streams, get_series: one of them for
\* a given content_type, all three for content_type None (lines 273-276)
SearchSubCalls == {1, 3}

\* Mutant of ReturnsEarly: get_vod_info lacks its logged_in guard.
ReturnsEarly_Unguarded(op, li, query) ==
    IF op = "get_vod_info" THEN FALSE
    ELSE IF op = "search" THEN ~li \/ ~query
    ELSE ~li

\* The first statement of each method: "if not self.logged_in: return []"
\* (lines 85, 128, 151, 174), "return None" (197, 218, 239, 246, 255), and for
\* search "if not self.logged_in or not query" (264)
ReturnsEarly(op, li, query) ==
    IF op = "search" THEN ~li \/ ~query ELSE ~li

\* What the early return gives: [] or None
EarlyResult(op) == IF op \in ListOps THEN "EmptyList" ELSE "None"

\* What a request that raises gives (the except branches): [] or None
ErrorResult(op) == IF op \in ListOps THEN "EmptyList" ELSE "None"

IdleApi == [pc |-> "idle", op |-> "none", li |-> FALSE, requested |-> FALSE,
            wake |-> 0, todo |-> 0]

NoCall == [op |-> "none", li |-> FALSE, ret |-> "none", requested |-> FALSE]

ApiInit ==
    /\ apiClock = ApiEpoch
    /\ apiTicks = 0
    /\ logged_in = FALSE
    /\ last_request_time = 0
    /\ api = [t \in ApiThreads |-> IdleApi]
    /\ lastRequestAt = NoTime
    /\ lastGap = NoTime
    /\ lastCall = NoCall
    /\ loggedOut = FALSE

\* The call of thread t returns ret.
Returned(t, op, li, ret, requested) ==
    /\ api' = [api EXCEPT ![t] = IdleApi]
    /\ lastCall' = [op |-> op, li |-> li, ret |-> ret, requested |-> requested]

\* Time passes. The request is sent by the statement that follows the stamp
\* of _wait_for_rate_limit: no time is let pass between the two.
ApiTick ==
    /\ apiTicks < MaxApiTicks
    /\ \A t \in ApiThreads : api[t].pc # "request"
    /\ apiClock' = apiClock + ApiStep
    /\ apiTicks' = apiTicks + 1
    /\ UNCHANGED <<logged_in, last_request_time, api, lastRequestAt, lastGap,
                   lastCall, loggedOut>>
    /\ UNCHANGED otherThanApi

\* login, lines 37-58: with credentials given, on to the rate limiter
ApiLogin(t) ==
    /\ api[t].pc = "idle"
    /\ "login" \in OpsOf(t)
    /\ api' = [api EXCEPT ![t] = [IdleApi EXCEPT !.pc = "rl_read", !.op = "login",
                                                 !.li = logged_in]]
    /\ UNCHANGED <<apiClock, apiTicks, logged_in, last_request_time, lastRequestAt,
                   lastGap, lastCall, loggedOut>>
    /\ UNCHANGED otherThanApi

\* logout, lines 75-81 (called by AuthenticationManager.logout on the UI thread)
ApiLogout ==
    /\ api["main"].pc = "idle"
    /\ logged_in' = FALSE
    /\ loggedOut' = (loggedOut \/ logged_in)
    /\ UNCHANGED <<apiClock, apiTicks, last_request_time, api, lastRequestAt,
                   lastGap, lastCall>>
    /\ UNCHANGED otherThanApi

\* get_categories, get_live_streams, get_vod_streams, get_series,
\* get_series_info, get_vod_info: the guard, then on to the rate limiter;
\* get_categories also returns [] for a content type it does not know (94-96)
ApiCallHttp(t, op, known) ==
    /\ api[t].pc = "idle"
    /\ op \in HttpOps \cap OpsOf(t)
    /\ known \/ op = "get_categories"
    /\ IF ReturnsEarly(op, logged_in, TRUE) \/ ~known
       THEN Returned(t, op, logged_in, EarlyResult(op), FALSE)
       ELSE /\ api' = [api EXCEPT ![t] = [IdleApi EXCEPT !.pc = "rl_read", !.op = op,
                                                        !.li = logged_in]]
            /\ UNCHANGED lastCall
    /\ UNCHANGED <<apiClock, apiTicks, logged_in, last_request_time, lastRequestAt,
                   lastGap, loggedOut>>
    /\ UNCHANGED otherThanApi

\* get_live_stream_url, get_vod_stream_url, get_series_stream_url (237-260):
\* the guard, then the URL is built from base_url, username and password
ApiCallUrl(t, op) ==
    /\ api[t].pc = "idle"
    /\ op \in UrlOps \cap OpsOf(t)
    /\ Returned(t, op, logged_in,
                IF ReturnsEarly(op, logged_in, TRUE) THEN EarlyResult(op) ELSE "Url",
                FALSE)
    /\ UNCHANGED <<apiClock, apiTicks, logged_in, last_request_time, lastRequestAt,
                   lastGap, loggedOut>>
    /\ UNCHANGED otherThanApi

\* search, lines 262-276: the guard, then n calls of get_live_streams /
\* get_vod_streams / get_series
ApiCallSearch(t, query, n) ==
    /\ api[t].pc = "idle"
    /\ "search" \in OpsOf(t)
    /\ IF ReturnsEarly("search", logged_in, query)
       THEN Returned(t, "search", logged_in, EarlyResult("search"), FALSE)
       ELSE /\ api' = [api EXCEPT ![t] = [IdleApi EXCEPT !.pc = "guard", !.op = "search",
                                                        !.li = logged_in, !.todo = n]]
            /\ UNCHANGED lastCall
    /\ UNCHANGED <<apiClock, apiTicks, logged_in, last_request_time, lastRequestAt,
                   lastGap, loggedOut>>
    /\ UNCHANGED otherThanApi

\* search, lines 283, 295, 309: the next get_*_streams call checks logged_in
\* again (128, 151, 174) and returns [] without a request when it is False
ApiSearchGuard(t) ==
    /\ api[t].pc = "guard"
    /\ IF logged_in
       THEN /\ api' = [api EXCEPT ![t].pc = "rl_read"]
            /\ UNCHANGED lastCall
       ELSE IF api[t].todo > 1
            THEN /\ api' = [api EXCEPT ![t].todo = @ - 1]
                 /\ UNCHANGED lastCall
            ELSE Returned(t, "search", api[t].li, "Results", api[t].requested)
    /\ UNCHANGED <<apiClock, apiTicks, logged_in, last_request_time, lastRequestAt,
                   lastGap, loggedOut>>
    /\ UNCHANGED otherThanApi

\* _wait_for_rate_limit lines 330-334: the clock and last_request_time are
\* read; a call within request_delay of the last one will sleep for the rest
RateLimitRead(t) ==
    /\ api[t].pc = "rl_read"
    /\ api' = [api EXCEPT ![t] =
                 IF apiClock - last_request_time < request_delay
                 THEN [@ EXCEPT !.pc = "rl_sleep",
                                !.wake = apiClock + (request_delay - (apiClock - last_request_time))]
                 ELSE [@ EXCEPT !.pc = "rl_stamp"]]
    /\ UNCHANGED <<apiClock, apiTicks, logged_in, last_request_time, lastRequestAt,
                   lastGap, lastCall, loggedOut>>
    /\ UNCHANGED otherThanApi

\* line 335: time.sleep(sleep_time) returns once that time has passed
RateLimitSleep(t) ==
    /\ api[t].pc = "rl_sleep"
    /\ apiClock >= api[t].wake
    /\ api' = [api EXCEPT ![t].pc = "rl_stamp", ![t].wake = 0]
    /\ UNCHANGED <<apiClock, apiTicks, logged_in, last_request_time, lastRequestAt,
                   lastGap, lastCall, loggedOut>>
    /\ UNCHANGED otherThanApi

\* line 337: self.last_request_time = time.time()
RateLimitStamp(t) ==
    /\ api[t].pc = "rl_stamp"
    /\ last_request_time' = apiClock
    /\ api' = [api EXCEPT ![t].pc = "request"]
    /\ UNCHANGED <<apiClock, apiTicks, logged_in, lastRequestAt, lastGap, lastCall,
                   loggedOut>>
    /\ UNCHANGED otherThanApi

\* requests.get(url, params=params) starts now
RequestStarts ==
    /\ lastGap' = IF lastRequestAt = NoTime THEN NoTime ELSE apiClock - lastRequestAt
    /\ lastRequestAt' = apiClock

\* login lines 59-73: the response has user_info (logged_in = True, the data
\* is returned) or it has not, or the request raises (False is returned)
LoginRequest(t, ok) ==
    /\ api[t].pc = "request"
    /\ api[t].op = "login"
    /\ RequestStarts
    /\ logged_in' = IF ok THEN TRUE ELSE logged_in
    /\ Returned(t, "login", api[t].li, IF ok THEN "Data" ELSE "False", TRUE)
    /\ UNCHANGED <<apiClock, apiTicks, last_request_time, loggedOut>>
    /\ UNCHANGED otherThanApi

\* lines 107-111, 143-147, 166-170, 189-193, 210-214, 231-235: the request is
\* made; response.json() is returned, or [] / None when it raises
HttpRequest(t, ok) ==
    /\ api[t].pc = "request"
    /\ api[t].op \in HttpOps
    /\ RequestStarts
    /\ Returned(t, api[t].op, api[t].li,
                IF ok THEN "Response" ELSE ErrorResult(api[t].op), TRUE)
    /\ UNCHANGED <<apiClock, apiTicks, logged_in, last_request_time, loggedOut>>
    /\ UNCHANGED otherThanApi

\* search: the request of one get_*_streams call; then the next one, or the
\* results are returned (lines 278-326)
SearchRequest(t) ==
    /\ api[t].pc = "request"
    /\ api[t].op = "search"
    /\ RequestStarts
    /\ IF api[t].todo > 1
       THEN /\ api' = [api EXCEPT ![t].pc = "guard", ![t].todo = @ - 1,
                                  ![t].requested = TRUE]
            /\ UNCHANGED lastCall
       ELSE Returned(t, "search", api[t].li, "Results", TRUE)
    /\ UNCHANGED <<apiClock, apiTicks, logged_in, last_request_time, loggedOut>>
    /\ UNCHANGED otherThanApi

---------------------------------------------------------------------------
(* EPGManager.get_channel_epg, get_current_program, get_next_program       *)

MaxProgs == 2

\* The channel that has an entry in programs, and one that has none
KnownId == "bbc1.uk"

UnknownId == "itv1.uk"

ChannelIds == {"", KnownId, UnknownId}

\* hours: 1 (get_current_program), 12 (get_next_program and the default)
Hours == {1, 12}

\* How far the clock moves between the clock read of get_channel_epg and
\* the one of its caller, in seconds
ClockAdvance == {0, 1}

\* Timestamps of programmes: 0 (lines 222, 224: the start or stop attribute
\* is missing; also a time long ago), the lookup time, the second after it,
\* and the ends of the windows of 1 and 12 hours and the second after them
Timestamps ==
    {0, Epoch, Epoch + 1,
     Epoch + 3600, Epoch + 3601, Epoch + 12 * 3600, Epoch + 12 * 3600 + 1}

Programmes == [start_timestamp : Timestamps, stop_timestamp : Timestamps]

\* _parse_xmltv lines 230-232: each channel's list is sorted by start_timestamp
SortedByStart(list) ==
    \A i \in 1..(Len(list) - 1) : list[i].start_timestamp <= list[i + 1].start_timestamp

ProgrammeLists ==
    {list \in UNION {[1..n -> Programmes] : n \in 0..MaxProgs} : SortedByStart(list)}

NoLookup == [op |-> "none", ch |-> "", hours |-> 0, t0 |-> 0, t1 |-> 0,
             ret |-> [kind |-> "None", value |-> <<>>]]

LookupInit ==
    /\ channel_programs = <<>>
    /\ lookup = NoLookup

\* Mutant of InWindow: a programme that stops now is left out.
InWindow_StopAfterNow(prog, now_timestamp, end_timestamp) ==
    prog.start_timestamp <= end_timestamp /\ prog.stop_timestamp > now_timestamp

\* line 339
InWindow(prog, now_timestamp, end_timestamp) ==
    prog.start_timestamp <= end_timestamp /\ prog.stop_timestamp >= now_timestamp

\* get_channel_epg, lines 317-342, called at time t
get_channel_epg(epg_channel_id, hours, t) ==
    IF epg_channel_id = "" THEN <<>>
    ELSE IF epg_channel_id # KnownId THEN <<>>
    ELSE SelectSeq(channel_programs, LAMBDA prog : InWindow(prog, t, t + hours * 3600))

\* Mutant of Airing: a programme that starts now is not yet on.
Airing_StartedBefore(prog, now_timestamp) ==
    prog.start_timestamp < now_timestamp /\ prog.stop_timestamp >= now_timestamp

\* line 450
Airing(prog, now_timestamp) ==
    prog.start_timestamp <= now_timestamp /\ prog.stop_timestamp >= now_timestamp

\* line 468
StartsLater(prog, now_timestamp) == prog.start_timestamp > now_timestamp

None == [kind |-> "None", value |-> <<>>]

\* "for prog in programs: if ...: return prog" and "return None" after it
FirstOf(found) ==
    IF found = <<>> THEN None ELSE [kind |-> "Programme", value |-> <<Head(found)>>]

\* get_current_program, lines 437-453: get_channel_epg reads the clock at t0,
\* line 446 reads it again at t1
get_current_program(epg_channel_id, t0, t1) ==
    IF epg_channel_id = "" THEN None
    ELSE FirstOf(SelectSeq(get_channel_epg(epg_channel_id, 1, t0),
                           LAMBDA prog : Airing(prog, t1)))

\* get_next_program, lines 455-471: get_channel_epg reads the clock at t0,
\* line 464 reads it again at t1
get_next_program(epg_channel_id, t0, t1) ==
    IF epg_channel_id = "" THEN None
    ELSE FirstOf(SelectSeq(get_channel_epg(epg_channel_id, 12, t0),
                           LAMBDA prog : StartsLater(prog, t1)))

LookupChannelEpg(ch, hours) ==
    /\ lookup' = [op |-> "get_channel_epg", ch |-> ch, hours |-> hours,
                  t0 |-> now, t1 |-> now,
                  ret |-> [kind |-> "List", value |-> get_channel_epg(ch, hours, now)]]
    /\ UNCHANGED channel_programs
    /\ UNCHANGED otherThanLookup

LookupCurrent(ch, d) ==
    /\ lookup' = [op |-> "get_current_program", ch |-> ch, hours |-> 1,
                  t0 |-> now, t1 |-> now + d,
                  ret |-> get_current_program(ch, now, now + d)]
    /\ UNCHANGED channel_programs
    /\ UNCHANGED otherThanLookup

LookupNext(ch, d) ==
    /\ lookup' = [op |-> "get_next_program", ch |-> ch, hours |-> 12,
                  t0 |-> now, t1 |-> now + d,
                  ret |-> get_next_program(ch, now, now + d)]
    /\ UNCHANGED channel_programs
    /\ UNCHANGED otherThanLookup

---------------------------------------------------------------------------
(* EPGManager.map_stream_to_epg. A name is the tuple of its characters.    *)

MaxChannels == 2

\* The name of a channel whose <channel> element has no display-name:
\* findtext gives None (lines 199, 205)
NoneName == <<"None">>

ChannelNames ==
    {NoneName, <<>>, <<"B", "B", "C">>, <<"b", "b", "c", "1">>, <<"b", "b", "c", " ", "1">>, <<"b", "b", "c", " ", "1", "2">>, <<"B", "B", "C", " ", "H", "D">>, <<"i", "t", "v">>}

StreamNames ==
    {<<>>, <<"b", "b", "c">>, <<"U", "K", " ", "B", "B", "C">>, <<"b", "b", "c", "1">>, <<"b", "b", "c", " ", "1", "2", "3", "4">>, <<"i", "t", "v">>, <<"H", "D", " ">>}

ChannelIdOf(i) == <<"c1", "c2", "c3">>[i]

\* The channels of an XMLTV document, in document order
ChannelDicts ==
    {[i \in 1..Len(names) |-> [id |-> ChannelIdOf(i), name |-> names[i]]] :
        names \in UNION {[1..n -> ChannelNames] : n \in 0..MaxChannels}}

\* channel_mappings.json: absent or {}, or one entry for the stream 'bbc'
Mappings == {{}, {<<<<"b", "b", "c">>, "mapped.id">>}}

NoMapped == [stream |-> <<>>, mappings |-> {}, ret |-> [kind |-> "None", id |-> ""]]

MapInit ==
    /\ channel_dict = <<>>
    /\ channel_mappings = {}
    /\ mapped = NoMapped

\* str.lower() on the letters that occur
LowerChar(c) ==
    CASE c = "B" -> "b" [] c = "C" -> "c" [] c = "D" -> "d" [] c = "H" -> "h"
      [] c = "K" -> "k" [] c = "U" -> "u" [] OTHER -> c

Lower(str) == [i \in 1..Len(str) |-> LowerChar(str[i])]

\* str.startswith, str.endswith, "sub in str"
StartsWith(str, prefix) ==
    Len(str) >= Len(prefix) /\ SubSeq(str, 1, Len(prefix)) = prefix

EndsWith(str, suffix) ==
    Len(str) >= Len(suffix) /\ SubSeq(str, Len(str) - Len(suffix) + 1, Len(str)) = suffix

Contains(str, sub) ==
    \E i \in 0..(Len(str) - Len(sub)) : SubSeq(str, i + 1, i + Len(sub)) = sub

\* line 388
prefixes_to_remove == <<<<"u", "k", " ">>, <<"u", "s", " ">>, <<"h", "d", " ">>, <<"f", "h", "d", " ">>, <<"u", "h", "d", " ">>, <<"4", "k", " ">>>>

\* line 393
suffixes_to_remove == <<<<" ", "h", "d">>, <<" ", "f", "h", "d">>, <<" ", "u", "h", "d">>, <<" ", "4", "k">>, <<" ", "t", "v">>, <<" ", "c", "h", "a", "n", "n", "e", "l">>>>

\* lines 389-391 and 407-409: each prefix is tried once, in order
RECURSIVE RemovePrefixes(_, _)
RemovePrefixes(str, k) ==
    IF k > Len(prefixes_to_remove) THEN str
    ELSE IF StartsWith(str, prefixes_to_remove[k])
         THEN RemovePrefixes(SubSeq(str, Len(prefixes_to_remove[k]) + 1, Len(str)), k + 1)
         ELSE RemovePrefixes(str, k + 1)

\* lines 394-396 and 411-413: each suffix is tried once, in order
RECURSIVE RemoveSuffixes(_, _)
RemoveSuffixes(str, k) ==
    IF k > Len(suffixes_to_remove) THEN str
    ELSE IF EndsWith(str, suffixes_to_remove[k])
         THEN RemoveSuffixes(SubSeq(str, 1, Len(str) - Len(suffixes_to_remove[k])), k + 1)
         ELSE RemoveSuffixes(str, k + 1)

\* The cleaned name of a lower-case name
Clean(lowered) == RemoveSuffixes(RemovePrefixes(lowered, 1), 1)

\* line 423: the characters of the stream name that occur in the channel name
common_chars(stream_name_clean, channel_name_clean) ==
    Cardinality({i \in 1..Len(stream_name_clean) :
                    \E j \in 1..Len(channel_name_clean) :
                        channel_name_clean[j] = stream_name_clean[i]})

Max(a, b) == IF a >= b THEN a ELSE b

\* line 424: the score, as the fraction <<numerator, denominator>>
Score(stream_name_clean, channel_name_clean) ==
    <<common_chars(stream_name_clean, channel_name_clean),
      Max(Len(stream_name_clean), Len(channel_name_clean))>>

\* A fraction is greater than another; greater than 0.5
Greater(x, y) == x[1] * y[2] > y[1] * x[2]

AboveHalf(x) == 2 * x[1] > x[2]

NoId == [kind |-> "None", id |-> ""]

ReturnId(id) == [kind |-> "Id", id |-> id]

\* 'NoneType' object has no attribute 'lower'
Raises == [kind |-> "AttributeError", id |-> ""]

\* lines 378-382: the first channel whose name is not empty or None and
\* equals the stream name when both are lower-cased
ExactMatches(stream_name) ==
    {i \in 1..Len(channel_dict) :
        /\ channel_dict[i].name # NoneName
        /\ channel_dict[i].name # <<>>
        /\ Lower(channel_dict[i].name) = Lower(stream_name)}

\* lines 402-432, from channel i on
RECURSIVE MatchCleaned(_, _, _, _)
MatchCleaned(stream_name_clean, i, best_match, best_match_score) ==
    IF i > Len(channel_dict)
    THEN IF best_match # "" THEN ReturnId(best_match) ELSE NoId
    ELSE IF channel_dict[i].name = NoneName THEN Raises
    ELSE LET channel_name_clean == Clean(Lower(channel_dict[i].name))
             score == Score(stream_name_clean, channel_name_clean)
         IN IF stream_name_clean = channel_name_clean
            THEN ReturnId(channel_dict[i].id)
            ELSE IF /\ \/ Contains(channel_name_clean, stream_name_clean)
                       \/ Contains(stream_name_clean, channel_name_clean)
                    /\ Greater(score, best_match_score)
                    /\ AboveHalf(score)
                 THEN MatchCleaned(stream_name_clean, i + 1, channel_dict[i].id, score)
                 ELSE MatchCleaned(stream_name_clean, i + 1, best_match, best_match_score)

\* map_stream_to_epg, lines 361-435
map_stream_to_epg(stream_name) ==
    IF stream_name = <<>> THEN NoId
    ELSE IF \E m \in channel_mappings : m[1] = stream_name
    THEN ReturnId((CHOOSE m \in channel_mappings : m[1] = stream_name)[2])
    ELSE IF ExactMatches(stream_name) # {}
    THEN ReturnId(channel_dict[CHOOSE i \in ExactMatches(stream_name) :
                                  \A j \in ExactMatches(stream_name) : i <= j].id)
    ELSE MatchCleaned(Clean(Lower(stream_name)), 1, "", <<0, 1>>)

MapStream(stream_name) ==
    /\ mapped' = [stream |-> stream_name, mappings |-> channel_mappings,
                  ret |-> map_stream_to_epg(stream_name)]
    /\ UNCHANGED <<channel_dict, channel_mappings>>
    /\ UNCHANGED otherThanMap

\* reload_channel_mappings, lines 357-359
ReloadMappings(mappings) ==
    /\ channel_mappings' = mappings
    /\ UNCHANGED <<channel_dict, mapped>>
    /\ UNCHANGED otherThanMap

---------------------------------------------------------------------------
(* ImageCache (chumpstreams_image_cache.py)                                *)

MaxImgThreads == 3

ImgThreads == 1..MaxImgThreads

Urls == {"poster.jpg", "backdrop.jpg"}

\* A cached file: "none" (no file or an empty one), "valid" (an image),
\* "corrupt" (data that QPixmap cannot load)
IdleDl == [pc |-> "idle", url |-> ""]

ImgInit ==
    /\ loading = {}
    /\ img_file = [u \in Urls |-> "none"]
    /\ dl = [t \in ImgThreads |-> IdleDl]

\* The download threads that have been started for url and have not ended
InFlight(url) == {t \in ImgThreads : dl[t].pc # "idle" /\ dl[t].url = url}

\* threading.Thread(...).start(): the thread that runs next
FreeThread(t) ==
    /\ dl[t].pc = "idle"
    /\ \A o \in ImgThreads : dl[o].pc = "idle" => t <= o

\* download_image, lines 135-143, on the UI thread
StartDownload(url, t) ==
    /\ loading' = loading \cup {url}
    /\ dl' = [dl EXCEPT ![t] = [pc |-> "check", url |-> url]]

download_image(url) ==
    /\ url \notin loading
    /\ \E t \in ImgThreads : FreeThread(t) /\ StartDownload(url, t)
    /\ UNCHANGED img_file
    /\ UNCHANGED otherThanImg

\* get_pixmap, lines 101-126, on the UI thread: a cached file that does not
\* load is removed and downloaded again; a URL that is not cached and not
\* marked is downloaded
get_pixmap(url) ==
    /\ \/ /\ img_file[url] = "corrupt"
          /\ img_file' = [img_file EXCEPT ![url] = "none"]
          /\ IF url \in loading
             THEN UNCHANGED <<loading, dl>>
             ELSE \E t \in ImgThreads : FreeThread(t) /\ StartDownload(url, t)
       \/ /\ img_file[url] = "none"
          /\ url \notin loading
          /\ \E t \in ImgThreads : FreeThread(t) /\ StartDownload(url, t)
          /\ UNCHANGED img_file
    /\ UNCHANGED otherThanImg

\* clear_cache, lines 216-230: every cached file is removed
ImgClearCache ==
    /\ \E u \in Urls : img_file[u] # "none"
    /\ img_file' = [u \in Urls |-> "none"]
    /\ UNCHANGED <<loading, dl>>
    /\ UNCHANGED otherThanImg

\* _download_thread lines 153-156: is the file there already?
DlCheck(t) ==
    /\ dl[t].pc = "check"
    /\ dl' = [dl EXCEPT ![t].pc = IF img_file[dl[t].url] # "none" THEN "del_early" ELSE "fetch"]
    /\ UNCHANGED <<loading, img_file>>
    /\ UNCHANGED otherThanImg

\* lines 158-159 and 179-180: del self._loading[url], return; a KeyError when
\* the mark is gone goes to the except branch
DlUnmark(t) ==
    /\ dl[t].pc \in {"del_early", "del_invalid"}
    /\ IF dl[t].url \in loading
       THEN /\ loading' = loading \ {dl[t].url}
            /\ dl' = [dl EXCEPT ![t].pc = "finally"]
       ELSE /\ dl' = [dl EXCEPT ![t].pc = "except"]
            /\ UNCHANGED loading
    /\ UNCHANGED img_file
    /\ UNCHANGED otherThanImg

\* lines 168-172: the response is written to the file, or the request raises
DlFetch(t, outcome) ==
    /\ dl[t].pc = "fetch"
    /\ IF outcome = "raises"
       THEN /\ dl' = [dl EXCEPT ![t].pc = "except"]
            /\ UNCHANGED img_file
       ELSE /\ dl' = [dl EXCEPT ![t].pc = "verify"]
            /\ img_file' = [img_file EXCEPT ![dl[t].url] = outcome]
    /\ UNCHANGED loading
    /\ UNCHANGED otherThanImg

\* lines 175-176: pixmap.load(cache_path)
DlVerify(t) ==
    /\ dl[t].pc = "verify"
    /\ dl' = [dl EXCEPT ![t].pc = IF img_file[dl[t].url] = "valid" THEN "finally"
                                  ELSE "remove_invalid"]
    /\ UNCHANGED <<loading, img_file>>
    /\ UNCHANGED otherThanImg

\* line 178: os.remove(cache_path), which raises when the file is gone
DlRemoveInvalid(t) ==
    /\ dl[t].pc = "remove_invalid"
    /\ IF img_file[dl[t].url] = "none"
       THEN /\ dl' = [dl EXCEPT ![t].pc = "except"]
            /\ UNCHANGED img_file
       ELSE /\ dl' = [dl EXCEPT ![t].pc = "del_invalid"]
            /\ img_file' = [img_file EXCEPT ![dl[t].url] = "none"]
    /\ UNCHANGED loading
    /\ UNCHANGED otherThanImg

\* lines 187-192: a partial download is removed
DlExcept(t) ==
    /\ dl[t].pc = "except"
    /\ img_file' = [img_file EXCEPT ![dl[t].url] = "none"]
    /\ dl' = [dl EXCEPT ![t].pc = "finally"]
    /\ UNCHANGED loading
    /\ UNCHANGED otherThanImg

\* lines 193-196: the mark is removed if there is one; the thread ends
DlFinally(t) ==
    /\ dl[t].pc = "finally"
    /\ loading' = loading \ {dl[t].url}
    /\ dl' = [dl EXCEPT ![t] = IdleDl]
    /\ UNCHANGED img_file
    /\ UNCHANGED otherThanImg

---------------------------------------------------------------------------
(* FavoritesManager (chumpstreams_favorites.py) and the shared config file *)

MaxFavs == 2

\* A content item as the server lists it; 0 and "" stand for a missing key
Item(stream_id, vod_id, series_id, id, stream_type) ==
    [stream_id |-> stream_id, vod_id |-> vod_id, series_id |-> series_id,
     id |-> id, stream_type |-> stream_type]

Live1 == Item(1, 0, 0, 0, "live")

Vod1 == Item(1, 0, 0, 0, "movie")

Vod2 == Item(0, 2, 0, 0, "")

Ser1 == Item(0, 0, 1, 0, "")

Ep1 == Item(0, 0, 0, 1, "")

\* The (item, content_type) pairs the application toggles: the items of a
\* content list with the type of that list, and the items of a search result
\* list with self.content_type = 'search' (chumpstreams_app.py 866, 1037)
AppCalls ==
    {<<Live1, "live">>, <<Vod1, "vod">>, <<Vod2, "vod">>,
     <<Ser1, "series">>, <<Ep1, "episode">>,
     <<Live1, "search">>, <<Ser1, "search">>}

SeriesItems == {Ser1}

\* A favorite: {'type', 'label', 'item'}; type "" is an entry in the old
\* format, the item itself
Favorite(content_type, item) == [type |-> content_type, item |-> item]

OldFormat(fav) == fav.type = ""

FavoriteEntries ==
    {Favorite(c[2], c[1]) : c \in AppCalls}
        \cup {Favorite("full_series", s) : s \in SeriesItems}
        \cup {Favorite("", item) : item \in {Live1, Ser1, Ep1}}

FavoriteLists == UNION {[1..n -> FavoriteEntries] : n \in 0..MaxFavs}

\* The config file: "absent", "corrupt" (json.load raises) or "ok"; of a file
\* that is ok, favs tells whether its 'favorites' entry is "absent", the
\* "same" as the list in memory or "stale", and settings, credentials and
\* last_service are 0 (no entry) or the number of the value stored
ConfigFile(state, favs, settings, credentials, last) ==
    [state |-> state, favs |-> favs, settings |-> settings,
     credentials |-> credentials, last_service |-> last]

AbsentConfig == ConfigFile("absent", "absent", 0, 0, 0)

CorruptConfig == ConfigFile("corrupt", "absent", 0, 0, 0)

ConfigFiles ==
    {AbsentConfig, CorruptConfig}
        \cup {ConfigFile("ok", f, s, c, c) : f \in {"absent", "same"}, s \in {0, 1}, c \in {0, 1}}

NoFavCall == [op |-> "none", ret |-> "None", wasFav |-> FALSE, nowFav |-> FALSE,
              unchanged |-> TRUE, wrote |-> "no"]

FavInit ==
    /\ favorites = <<>>
    /\ config = AbsentConfig
    /\ favCall = NoFavCall
    /\ cleanStart = TRUE

\* item.get('stream_id', item.get('vod_id')), lines 170 and 179
StreamOrVodId(item) == IF item.stream_id # 0 THEN item.stream_id ELSE item.vod_id

FirstIndex(indices) ==
    IF indices = {} THEN 0 ELSE CHOOSE i \in indices : \A j \in indices : i <= j

\* Mutant of _find_favorite_index: a series is only found under the very
\* type it is looked up with.
find_favorite_index_SameType(favs, item, content_type) ==
    IF content_type \in {"live", "vod"}
    THEN FirstIndex({i \in 1..Len(favs) :
                        /\ favs[i].type = content_type
                        /\ StreamOrVodId(favs[i].item) # 0
                        /\ StreamOrVodId(favs[i].item) = StreamOrVodId(item)})
    ELSE IF content_type \in {"series", "full_series"}
    THEN FirstIndex({i \in 1..Len(favs) :
                        /\ favs[i].type = content_type
                        /\ favs[i].item.series_id # 0
                        /\ favs[i].item.series_id = item.series_id})
    ELSE IF content_type = "episode"
    THEN FirstIndex({i \in 1..Len(favs) :
                        /\ favs[i].type = "episode"
                        /\ favs[i].item.id # 0
                        /\ favs[i].item.id = item.id})
    ELSE 0

\* _find_favorite_index, lines 166-216: the index (from 1) of the first
\* matching favorite, 0 for -1
find_favorite_index(favs, item, content_type) ==
    IF content_type \in {"live", "vod"}
    THEN FirstIndex({i \in 1..Len(favs) :
                        /\ favs[i].type = content_type
                        /\ StreamOrVodId(favs[i].item) # 0
                        /\ StreamOrVodId(favs[i].item) = StreamOrVodId(item)})
    ELSE IF content_type \in {"series", "full_series"}
    THEN FirstIndex({i \in 1..Len(favs) :
                        /\ favs[i].type \in {"series", "full_series"}
                        /\ favs[i].item.series_id # 0
                        /\ favs[i].item.series_id = item.series_id})
    ELSE IF content_type = "episode"
    THEN FirstIndex({i \in 1..Len(favs) :
                        /\ favs[i].type = "episode"
                        /\ favs[i].item.id # 0
                        /\ favs[i].item.id = item.id})
    ELSE 0

\* is_favorite, lines 218-220
is_favorite(favs, item, content_type) == find_favorite_index(favs, item, content_type) > 0

\* is_series_favorite, lines 277-280
is_series_favorite(favs, series) ==
    \/ find_favorite_index(favs, series, "full_series") > 0
    \/ find_favorite_index(favs, series, "series") > 0

\* The family of a content type: a series is the same favorite under
\* 'series' and under 'full_series' (lines 185-198)
Family(content_type) ==
    IF content_type \in {"live", "vod", "episode"} THEN content_type
    ELSE IF content_type \in {"series", "full_series"} THEN "series"
    ELSE "none"

\* The id a favorite is compared by within its family (lines 170-213)
FamilyId(fav) ==
    IF fav.type \in {"live", "vod"} THEN StreamOrVodId(fav.item)
    ELSE IF fav.type \in {"series", "full_series"} THEN fav.item.series_id
    ELSE IF fav.type = "episode" THEN fav.item.id
    ELSE 0

SameItem(fav, other) ==
    /\ Family(fav.type) # "none"
    /\ Family(fav.type) = Family(other.type)
    /\ FamilyId(fav) # 0
    /\ FamilyId(fav) = FamilyId(other)

DuplicateFree(favs) ==
    \A i, j \in 1..Len(favs) : i < j => ~SameItem(favs[i], favs[j])

\* self.favorites.pop(index)
PopAt(favs, index) == SubSeq(favs, 1, index - 1) \o SubSeq(favs, index + 1, Len(favs))

\* add_favorite lines 128-134, add_series_favorite lines 243-249
AfterAdd(favs, item, content_type) ==
    IF find_favorite_index(favs, item, content_type) > 0 THEN favs
    ELSE Append(favs, Favorite(content_type, item))

\* remove_favorite lines 140-145, remove_favorite_by_index line 159
AfterRemove(favs, item, content_type) ==
    IF find_favorite_index(favs, item, content_type) > 0
    THEN PopAt(favs, find_favorite_index(favs, item, content_type))
    ELSE favs

\* remove_series_favorite, lines 255-275
AfterRemoveSeries(favs, series) ==
    IF find_favorite_index(favs, series, "full_series") > 0
    THEN PopAt(favs, find_favorite_index(favs, series, "full_series"))
    ELSE AfterRemove(favs, series, "series")

\* migrate_old_favorites lines 307-332: what becomes of one entry (a list
\* of one entry, or of none)
Migrated(fav) ==
    IF ~OldFormat(fav) THEN <<fav>>
    ELSE IF fav.item.stream_id # 0 /\ fav.item.stream_type # ""
    THEN <<Favorite(IF fav.item.stream_type = "live" THEN "live" ELSE "vod", fav.item)>>
    ELSE IF fav.item.series_id # 0
    THEN <<Favorite("full_series", fav.item)>>
    ELSE <<>>

RECURSIVE MigrateAll(_)
MigrateAll(favs) ==
    IF favs = <<>> THEN <<>> ELSE Migrated(Head(favs)) \o MigrateAll(Tail(favs))

\* migrate_old_favorites lines 293-335
AfterMigrate(favs) ==
    IF \E i \in 1..Len(favs) : OldFormat(favs[i]) THEN MigrateAll(favs) ELSE favs

\* Mutant of WrittenByFavorites: the file is written from an empty config.
WrittenByFavorites_FreshConfig(file) == ConfigFile("ok", "same", 0, 0, 0)

\* _save_favorites lines 47-66: the file after a write that succeeds
WrittenByFavorites(file) ==
    IF file.state = "ok"
    THEN [file EXCEPT !.favs = "same"]
    ELSE ConfigFile("ok", "same", 0, 0, 0)

\* The file after the list in memory changed and was not written
Outdated(file) ==
    IF file.state = "ok" /\ file.favs = "same" THEN [file EXCEPT !.favs = "stale"] ELSE file

\* A favorites operation as a whole: the list becomes favs; when saves, it is
\* written by _save_favorites, which succeeds or fails (lines 61-70)
FavOperation(op, favs, saves, ok, ret, wasFav, nowFav) ==
    /\ Len(favs) <= MaxFavs
    /\ favorites' = favs
    /\ config' = IF saves /\ ok THEN WrittenByFavorites(config)
                 ELSE IF favs # favorites THEN Outdated(config)
                 ELSE config
    /\ favCall' = [op |-> op, ret |-> ret, wasFav |-> wasFav, nowFav |-> nowFav,
                   unchanged |-> (favs = favorites),
                   wrote |-> IF ~saves THEN "no" ELSE IF ok THEN "ok" ELSE "failed"]
    /\ cleanStart' = IF op = "migrate_old_favorites" THEN DuplicateFree(favs) ELSE cleanStart
    /\ UNCHANGED otherThanFav

add_favorite(item, content_type, ok) ==
    LET favs == AfterAdd(favorites, item, content_type)
    IN FavOperation("add_favorite", favs, favs # favorites, ok, "None",
                    is_favorite(favorites, item, content_type),
                    is_favorite(favs, item, content_type))

remove_favorite(item, content_type, ok) ==
    LET favs == AfterRemove(favorites, item, content_type)
    IN FavOperation("remove_favorite", favs, favs # favorites, ok,
                    IF favs # favorites THEN "True" ELSE "False",
                    is_favorite(favorites, item, content_type),
                    is_favorite(favs, item, content_type))

\* remove_favorite_by_index, lines 147-164
remove_favorite_by_index(index, ok) ==
    /\ index \in 1..Len(favorites)
    /\ FavOperation("remove_favorite_by_index", PopAt(favorites, index), TRUE, ok,
                    "True", TRUE, FALSE)

\* toggle_favorite, lines 222-229
toggle_favorite(item, content_type, ok) ==
    LET wasFav == is_favorite(favorites, item, content_type)
        favs == IF wasFav THEN AfterRemove(favorites, item, content_type)
                ELSE AfterAdd(favorites, item, content_type)
    IN FavOperation("toggle_favorite", favs, favs # favorites, ok,
                    IF wasFav THEN "False" ELSE "True", wasFav,
                    is_favorite(favs, item, content_type))

add_series_favorite(series, ok) ==
    LET favs == AfterAdd(favorites, series, "full_series")
    IN FavOperation("add_series_favorite", favs, favs # favorites, ok, "None",
                    is_series_favorite(favorites, series),
                    is_series_favorite(favs, series))

remove_series_favorite(series, ok) ==
    LET favs == AfterRemoveSeries(favorites, series)
    IN FavOperation("remove_series_favorite", favs, favs # favorites, ok,
                    IF favs # favorites THEN "True" ELSE "False",
                    is_series_favorite(favorites, series),
                    is_series_favorite(favs, series))

\* toggle_series_favorite, lines 282-289
toggle_series_favorite(series, ok) ==
    LET wasFav == is_series_favorite(favorites, series)
        favs == IF wasFav THEN AfterRemoveSeries(favorites, series)
                ELSE AfterAdd(favorites, series, "full_series")
    IN FavOperation("toggle_series_favorite", favs, favs # favorites, ok,
                    IF wasFav THEN "False" ELSE "True", wasFav,
                    is_series_favorite(favs, series))

\* migrate_old_favorites, lines 291-339: saves whenever an entry was in the
\* old format
migrate_old_favorites(ok) ==
    FavOperation("migrate_old_favorites", AfterMigrate(favorites),
                 \E i \in 1..Len(favorites) : OldFormat(favorites[i]), ok,
                 "None", FALSE, FALSE)

\* A call of another manager that writes the config file
OtherSave(op, file) ==
    /\ config' = file
    /\ favCall' = [NoFavCall EXCEPT !.op = op]
    /\ UNCHANGED <<favorites, cleanStart>>
    /\ UNCHANGED otherThanFav

\* SettingsManager._save_settings, chumpstreams_settings.py lines 170-190: a
\* corrupt file makes json.load raise, nothing is written
save_settings(ok) ==
    OtherSave("save_settings",
              IF config.state = "corrupt" \/ ~ok THEN config
              ELSE [config EXCEPT !.state = "ok", !.settings = 1])

\* AuthenticationManager.save_credentials, chumpstreams_auth.py lines 91-123
save_credentials(ok) ==
    OtherSave("save_credentials",
              IF config.state = "corrupt" \/ ~ok THEN config
              ELSE [config EXCEPT !.state = "ok", !.credentials = 1, !.last_service = 1])

---------------------------------------------------------------------------
(* QtVlcPlayer (chumpstreams_player.py)                                    *)

MaxPlays == 5

Pids == 1..MaxPlays

NoProcess == 0

\* A process is "none" (not started), "running", "terminating" (it was sent
\* SIGTERM and has not exited yet) or "exited"
Alive(pid) == started[pid] \in {"running", "terminating"}

NextPid == CHOOSE pid \in Pids : started[pid] = "none" /\ \A q \in Pids : q < pid => started[q] # "none"

PlayerInit ==
    /\ process = NoProcess
    /\ started = [pid \in Pids |-> "none"]
    /\ playerCall = [op |-> "none", ret |-> "None"]

\* close() lines 205-244 as a function of the state: terminate() reaches a
\* process that is alive; within the wait (3 s, or 1 s when forced) it exits
\* or not; only a forced close kills a process that has not exited
AfterClose(procs, handle, force, exitsInTime) ==
    IF handle = NoProcess \/ ~(procs[handle] \in {"running", "terminating"}) THEN procs
    ELSE IF exitsInTime \/ force THEN [procs EXCEPT ![handle] = "exited"]
    ELSE [procs EXCEPT ![handle] = "terminating"]

\* close(force), lines 205-244
close(force, exitsInTime) ==
    /\ started' = AfterClose(started, process, force, exitsInTime)
    /\ process' = NoProcess
    /\ playerCall' = [op |-> "close", ret |-> "None"]
    /\ UNCHANGED otherThanPlayer

\* play(), lines 97-183, with VLC found and Popen succeeding
play(exitsInTime) ==
    /\ \E pid \in Pids : started[pid] = "none"
    /\ started' = [AfterClose(started, process, FALSE, exitsInTime) EXCEPT ![NextPid] = "running"]
    /\ process' = NextPid
    /\ playerCall' = [op |-> "play", ret |-> "True"]
    /\ UNCHANGED otherThanPlayer

\* play() when find_vlc returns None (lines 108-111) or Popen raises (lines
\* 181-183): the previous player was closed, none is started
playFails(exitsInTime) ==
    /\ started' = AfterClose(started, process, FALSE, exitsInTime)
    /\ process' = NoProcess
    /\ playerCall' = [op |-> "play", ret |-> "False"]
    /\ UNCHANGED otherThanPlayer

\* A player process ends: the stream ended (--play-and-exit), the user
\* closed the window, or a SIGTERM sent earlier took effect
ProcessExits(pid) ==
    /\ Alive(pid)
    /\ started' = [started EXCEPT ![pid] = "exited"]
    /\ UNCHANGED <<process, playerCall>>
    /\ UNCHANGED otherThanPlayer

---------------------------------------------------------------------------
(* ApiClient.login (api_client.py) and AuthenticationManager               *)
(* (chumpstreams_auth.py)                                                  *)

\* "" is an empty or missing argument
Usernames == {"", "u1", "u2"}

Passwords == {"", "p1"}

\* service=None and two configured services
NoService == "None"

Services == {"svcA", "svcB"}

DefaultUrl == "https://subs.chumpbumptv.com:443"

\* _build_base_url, lines 70-75
build_base_url(service) == IF service = "svcA" THEN "https://a:443" ELSE "http://b:80"

\* service['name'] if service else 'default', line 105
ServiceKey(service) == IF service = NoService THEN "default" ELSE service

ServiceKeys == {"default"} \cup Services

\* A key of 'credentials' without entry
NotSaved == "absent"

NoAuth == [username |-> "", password |-> "", service |-> NoService, empty |-> TRUE]

NoAccepted == [username |-> "", password |-> "", base_url |-> ""]

AuthInit ==
    /\ session = [username |-> "", password |-> "", logged_in |-> FALSE,
                  base_url |-> DefaultUrl]
    /\ auth = NoAuth
    /\ current_service = NoService
    /\ saved = [k \in ServiceKeys |-> NotSaved]
    /\ last_service = NotSaved
    /\ accepted = NoAccepted
    /\ loginCall = [op |-> "none", outcome |-> "none", remember |-> FALSE]

\* AuthenticationManager.login lines 37-40: the service given, else the one
\* kept from an earlier call
ServiceUsed(service) == IF service # NoService THEN service ELSE current_service

\* ApiClient.login lines 40-43: the arguments that are not empty replace the
\* client's credentials
UsernameUsed(username) == IF username # "" THEN username ELSE session.username

PasswordUsed(password) == IF password # "" THEN password ELSE session.password

\* The outcomes of ApiClient.login for the credentials it uses: without a
\* username or password it returns False before any request (lines 46-48);
\* else the server accepts ('user_info' in data), rejects, or the request raises
Outcomes(username, password) ==
    IF UsernameUsed(username) = "" \/ PasswordUsed(password) = "" THEN {"missing"}
    ELSE {"accepted", "rejected", "error"}

\* Mutant of ClearedCredentials: every saved credential is cleared.
ClearedCredentials_All(credentials, service) == [k \in ServiceKeys |-> NotSaved]

\* clear_saved_credentials lines 166-174: the credentials after the call
ClearedCredentials(credentials, service) ==
    IF service # NoService
    THEN [credentials EXCEPT ![ServiceKey(service)] = NotSaved]
    ELSE [k \in ServiceKeys |-> NotSaved]

\* AuthenticationManager.login, lines 33-68, with ApiClient.login, lines 37-73:
\* what the call does to the session, the manager and the config file
LoginEffect(username, password, remember, service, outcome) ==
    /\ outcome \in Outcomes(username, password)
    /\ current_service' = ServiceUsed(service)
    /\ session' = [username |-> UsernameUsed(username),
                   password |-> PasswordUsed(password),
                   logged_in |-> (outcome = "accepted" \/ session.logged_in),
                   base_url |-> IF service # NoService THEN build_base_url(service)
                                ELSE session.base_url]
    /\ auth' = IF outcome = "accepted"
               THEN [username |-> username, password |-> password,
                     service |-> ServiceUsed(service), empty |-> FALSE]
               ELSE auth
    /\ saved' = IF outcome # "accepted" THEN saved
                ELSE IF remember
                THEN [saved EXCEPT ![ServiceKey(ServiceUsed(service))] = username]
                ELSE ClearedCredentials(saved, ServiceUsed(service))
    /\ last_service' = IF outcome = "accepted" /\ remember
                       THEN ServiceKey(ServiceUsed(service)) ELSE last_service
    /\ accepted' = IF outcome = "accepted"
                   THEN [username |-> session'.username, password |-> session'.password,
                         base_url |-> session'.base_url]
                   ELSE accepted
    /\ loginCall' = [op |-> "login", outcome |-> outcome, remember |-> remember]

login(username, password, remember, service, outcome) ==
    /\ LoginEffect(username, password, remember, service, outcome)
    /\ UNCHANGED otherThanAuth

\* AuthenticationManager.logout lines 77-81 with ApiClient.logout lines 75-81
LogoutEffect ==
    /\ session' = [session EXCEPT !.logged_in = FALSE]
    /\ auth' = NoAuth
    /\ loginCall' = [op |-> "logout", outcome |-> "none", remember |-> FALSE]
    /\ UNCHANGED <<current_service, saved, last_service, accepted>>

logout ==
    /\ LogoutEffect
    /\ UNCHANGED otherThanAuth

---------------------------------------------------------------------------
(* Content loading: chumpstreams_app.py 427-518,                           *)
(* chumpstreams_content.py 17-52 and 224-237                              *)

\* loads in flight at once
MaxLoads == 2

\* threads of the pool: QThreadPool.maxThreadCount() is the number of cores
\* of the machine (chumpstreams_content.py line 229)
MaxThreads == 2

LoadTypes == {"live", "vod"}

Categories == {"c1", "c2"}

\* category names the panel can hand over: a category of the type, no name
\* (the content type button), a name categories_by_type does not hold
CategoryNames == Categories \cup {"", "gone"}

\* DEFAULT_CATEGORIES.get(content_type) or the first category, lines 397-412
DefaultCategory == "c1"

\* what the server lists for a category
ItemsOf(content_type, category) == <<content_type, category>>

\* self.favorites as shown by _display_favorites
FavoriteItems == <<"favorites">>

ClearedPanel == [content_type |-> "", items |-> <<>>]

NoRequest == [content_type |-> "", category |-> "", status |-> "none"]

\* ChumpStreamsApp.__init__ lines 106-107, ContentPanel.__init__ 177-178
ContentInit ==
    /\ app_content_type = "live"
    /\ content_items = <<>>
    /\ panel = ClearedPanel
    /\ timers = {}
    /\ loads = <<>>
    /\ category_request = NoRequest

\* set_content of the content panel (chumpstreams_ui_manager.py 186-190),
\* reached through ui_manager.update_content
set_content(content_type, items) == [content_type |-> content_type, items |-> items]

\* _display_favorites lines 535-570
PanelOfFavorites ==
    IF favorites = <<>> THEN ClearedPanel ELSE set_content("favorites", FavoriteItems)

\* the loads in flight once another selection has been made
Superseded == [i \in 1..Len(loads) |-> [loads[i] EXCEPT !.latest = FALSE]]

\* _load_content_for_category lines 453-480 called with auth held: the
\* category id is looked up (not found: an error message, no load) and
\* ContentManager.load_content starts a ContentWorker whose finished signal
\* is bound to _on_content_loaded(items, content_type)
LoadsAfter(content_type, category) ==
    IF category \notin Categories
    THEN Superseded
    ELSE Append(Superseded,
                [content_type |-> content_type, category |-> category,
                 running |-> FALSE, latest |-> TRUE])

RequestAfter(content_type, category) ==
    IF category \notin Categories
    THEN NoRequest
    ELSE [content_type |-> content_type, category |-> category, status |-> "pending"]

CanLoad(category) ==
    (auth # NoAuth /\ category \in Categories) => Len(loads) < MaxLoads

\* _on_category_changed lines 427-451
on_category_changed(content_type, category_name) ==
    /\ CanLoad(category_name)
    /\ app_content_type' = content_type
    /\ IF content_type = "favorites"
       THEN /\ panel' = PanelOfFavorites
            /\ category_request' = NoRequest
            /\ loads' = Superseded
            /\ UNCHANGED timers
       ELSE IF auth = NoAuth
       THEN /\ panel' = ClearedPanel
            /\ category_request' = NoRequest
            /\ loads' = Superseded
            /\ UNCHANGED timers
       ELSE IF category_name = ""
       THEN /\ timers' = timers \cup {content_type}
            /\ category_request' = NoRequest
            /\ loads' = Superseded
            /\ UNCHANGED panel
       ELSE /\ loads' = LoadsAfter(content_type, category_name)
            /\ category_request' = RequestAfter(content_type, category_name)
            /\ UNCHANGED <<panel, timers>>
    /\ UNCHANGED content_items
    /\ UNCHANGED otherThanContent

\* _update_categories_for_type lines 372-425, run by the timer: the default
\* category is selected and its content loaded; self.content_type is not set
update_categories_for_type(content_type) ==
    /\ content_type \in timers
    /\ CanLoad(DefaultCategory)
    /\ timers' = timers \ {content_type}
    /\ loads' = IF auth = NoAuth THEN loads
                ELSE LoadsAfter(content_type, DefaultCategory)
    /\ category_request' = IF auth = NoAuth THEN category_request
                           ELSE RequestAfter(content_type, DefaultCategory)
    /\ UNCHANGED <<app_content_type, content_items, panel>>
    /\ UNCHANGED otherThanContent

RunningLoads == {i \in 1..Len(loads) : loads[i].running}

\* QThreadPool.start (chumpstreams_content.py line 237): a worker runs when
\* one of the pool's threads is free, the queued workers in their order
WorkerStarts(i) ==
    /\ i \in 1..Len(loads)
    /\ ~loads[i].running
    /\ \A j \in 1..(i - 1) : loads[j].running
    /\ Cardinality(RunningLoads) < MaxThreads
    /\ loads' = [loads EXCEPT ![i].running = TRUE]
    /\ UNCHANGED <<app_content_type, content_items, panel, timers, category_request>>
    /\ UNCHANGED otherThanContent

Without(i) == SubSeq(loads, 1, i - 1) \o SubSeq(loads, i + 1, Len(loads))

\* ContentWorker.run lines 34-49: the list the API gives; get_live_streams
\* and get_vod_streams give [] to a client that is not logged in
\* (api_client.py 128-129, 151-152)
Loaded(load) ==
    IF session.logged_in THEN ItemsOf(load.content_type, load.category) ELSE <<>>

\* ContentWorker.run emits finished and the main thread runs
\* _on_content_loaded(items, content_type), lines 486-518
on_content_loaded(i) ==
    /\ i \in RunningLoads
    /\ content_items' = Loaded(loads[i])
    /\ panel' = set_content(loads[i].content_type, Loaded(loads[i]))
    /\ loads' = Without(i)
    /\ category_request' = IF loads[i].latest
                           THEN [category_request EXCEPT !.status = "loaded"]
                           ELSE category_request
    /\ UNCHANGED <<app_content_type, timers>>
    /\ UNCHANGED otherThanContent

\* ContentWorker.run emits error and the main thread runs _on_content_error,
\* lines 530-533: a message, nothing stored
on_content_error(i) ==
    /\ i \in RunningLoads
    /\ loads' = Without(i)
    /\ category_request' = IF loads[i].latest
                           THEN [category_request EXCEPT !.status = "failed"]
                           ELSE category_request
    /\ UNCHANGED <<app_content_type, content_items, panel, timers>>
    /\ UNCHANGED otherThanContent

---------------------------------------------------------------------------
(* ChumpStreamsApp: login, logout, EPG fetch and playback across the       *)
(* managers (chumpstreams_app.py, chumpstreams_playback.py)                *)

\* The protocol and host a URL addresses
Address(protocol, host) == [protocol |-> protocol, host |-> host]

\* SERVER and USE_HTTPS of chumpstreams_config.py
DefaultAddress == Address("https", "default")

Unassigned == Address("", "")

\* The address in an ApiClient base_url (protocol://host:port)
AddressOf(base_url) ==
    IF base_url = build_base_url("svcA") THEN Address("https", "a")
    ELSE IF base_url = build_base_url("svcB") THEN Address("http", "b")
    ELSE DefaultAddress

ServiceAddress(service) ==
    IF service = NoService THEN DefaultAddress ELSE AddressOf(build_base_url(service))

\* EPG data is told apart by the session it was fetched in
NoData == [service |-> NoService, user |-> ""]

EpgData(service, user) == [service |-> service, user |-> user]

NoUse == [kind |-> "none", address |-> Unassigned, user |-> "", data |-> NoData, ret |-> FALSE]

AppInit ==
    /\ epg_handler = [base_url |-> DefaultAddress, server |-> Unassigned]
    /\ playback = [SERVER |-> DefaultAddress, server |-> Unassigned, auth |-> NoAuth]
    /\ epg_store = [mem |-> NoData, memFresh |-> FALSE, file |-> NoData, fileFresh |-> FALSE]
    /\ lastUse = NoUse

\* ChumpStreamsApp._login lines 249-273: the API client gets the service's
\* base_url (as in AuthenticationManager.login); the EPG handler and the
\* playback manager get the attributes server / use_https assigned. On
\* success login_succeeded runs _on_login_success, lines 294-301:
\* playback_manager.update_auth(auth)
AppLogin(username, password, remember, service, outcome) ==
    /\ LoginEffect(username, password, remember, service, outcome)
    /\ epg_handler' = IF service # NoService
                      THEN [epg_handler EXCEPT !.server = ServiceAddress(service)]
                      ELSE epg_handler
    /\ playback' = [playback EXCEPT
                       !.server = IF service # NoService THEN ServiceAddress(service) ELSE @,
                       !.auth = IF outcome = "accepted" THEN auth' ELSE @]
    /\ lastUse' = NoUse
    /\ timers' = IF outcome = "accepted" THEN timers \cup {"live"} ELSE timers
    /\ UNCHANGED <<app_content_type, content_items, panel, loads, category_request>>
    /\ UNCHANGED epg_store
    /\ UNCHANGED otherThanAuthAppContent

\* ChumpStreamsApp._logout lines 275-279: auth_manager.logout()
AppLogout ==
    /\ LogoutEffect
    /\ lastUse' = NoUse
    /\ app_content_type' = "live"
    /\ panel' = ClearedPanel
    /\ category_request' = NoRequest
    /\ loads' = Superseded
    /\ UNCHANGED <<content_items, timers>>
    /\ UNCHANGED <<epg_handler, playback, epg_store>>
    /\ UNCHANGED otherThanAuthAppContent

\* An ApiClient request of a logged-in client: url = f"{self.base_url}/player_api.php"
AppApiRequest ==
    /\ session.logged_in
    /\ lastUse' = [NoUse EXCEPT !.kind = "api", !.address = AddressOf(session.base_url),
                                !.user = session.username, !.ret = TRUE]
    /\ UNCHANGED <<epg_handler, playback, epg_store>>
    /\ UNCHANGED otherThanApp

\* Time passes: the memory cache gets older than epg_cache_duration, or the
\* cache file older than file_cache_duration
EpgCacheAges(tier) ==
    /\ epg_store' = IF tier = "memory" THEN [epg_store EXCEPT !.memFresh = FALSE]
                    ELSE [epg_store EXCEPT !.fileFresh = FALSE]
    /\ epg_store' # epg_store
    /\ UNCHANGED <<epg_handler, playback, lastUse>>
    /\ UNCHANGED otherThanApp

\* fetch_epg_data lines 122-135 without force: the tier that serves the call
ServedFrom(store) ==
    IF store.mem # NoData /\ store.memFresh THEN "memory"
    ELSE IF store.file # NoData /\ store.fileFresh THEN "file"
    ELSE "server"

\* ChumpStreamsApp._fetch_epg_data lines 314-324 with EPGManager.fetch_epg_data
\* (username, password): from the memory cache, from the cache file (which
\* also fills the memory cache, lines 99-106) or from the server at
\* self.base_url (lines 143-151), whose result is cached in both tiers
AppFetchEpg(responds) ==
    /\ ~auth.empty
    /\ auth.username # ""
    /\ auth.password # ""
    /\ LET from == ServedFrom(epg_store)
           fetched == EpgData(current_service, auth.username)
       IN /\ epg_store' =
                 IF from = "memory" THEN epg_store
                 ELSE IF from = "file"
                 THEN [epg_store EXCEPT !.mem = epg_store.file, !.memFresh = TRUE]
                 ELSE IF responds
                 THEN [mem |-> fetched, memFresh |-> TRUE, file |-> fetched, fileFresh |-> TRUE]
                 ELSE epg_store
          /\ lastUse' = [kind |-> IF from = "server" THEN "epg_request" ELSE "epg_cache",
                         address |-> IF from = "server" THEN epg_handler.base_url ELSE Unassigned,
                         user |-> auth.username,
                         data |-> IF from = "memory" THEN epg_store.mem
                                  ELSE IF from = "file" THEN epg_store.file
                                  ELSE IF responds THEN fetched ELSE NoData,
                         ret |-> TRUE]
    /\ UNCHANGED <<epg_handler, playback>>
    /\ UNCHANGED otherThanApp

\* PlaybackManager.play_content lines 81-125 / play_episode lines 147-175 for
\* an item without stored URL. extract_stream_url (chumpstreams_content.py
\* 246-291) returns an ApiClient URL while logged in and None otherwise; the
\* fallback builds the URL from SERVER, USE_HTTPS and self.auth whenever the
\* item has an id
AppPlay(hasId) ==
    /\ lastUse' =
          IF ~hasId THEN [NoUse EXCEPT !.kind = "play"]
          ELSE IF session.logged_in
          THEN [NoUse EXCEPT !.kind = "play", !.address = AddressOf(session.base_url),
                             !.user = session.username, !.ret = TRUE]
          ELSE [NoUse EXCEPT !.kind = "fallback", !.address = playback.SERVER,
                             !.user = playback.auth.username, !.ret = TRUE]
    /\ UNCHANGED <<epg_handler, playback, epg_store>>
    /\ UNCHANGED otherThanApp

\* Spec: the clock runs; fetches and clear_cache follow one another (the
\* application starts a fetch after login, on a refresh request and after a
\* clear, each from the UI thread).
Next ==
    \/ Tick
    \/ \E t \in Threads, force \in BOOLEAN, creds \in BOOLEAN :
          AllIdle /\ StartFetch(t, force, creds)
    \/ \E t \in Threads : FetchStep(t)
    \/ AllIdle /\ ClearStart
    \/ ClearTime
    \/ ClearChannels
    \/ ClearPrograms
    \/ ClearFile
    \/ ClearFileFails
    \/ FileCorrupted

Init == EpgInit /\ ApiInit /\ LookupInit /\ MapInit /\ ImgInit /\ FavInit /\ PlayerInit /\ AuthInit /\ AppInit /\ ContentInit

Spec == Init /\ [][Next]_vars

\* SpecRace: the threads as Python schedules them. A fetch thread, a second
\* fetch thread and clear_cache on the UI thread interleave statement by
\* statement; the clock stands still.
NextRace ==
    \/ \E t \in Threads, force \in BOOLEAN, creds \in BOOLEAN : StartFetch(t, force, creds)
    \/ \E t \in Threads : FetchStep(t)
    \/ ClearStart
    \/ ClearTime
    \/ ClearChannels
    \/ ClearPrograms
    \/ ClearFile
    \/ ClearFileFails

SpecRace == Init /\ [][NextRace]_vars

\* SpecApi: the threads that call one ApiClient, interleaved statement by
\* statement of _wait_for_rate_limit.
NextApi ==
    \/ ApiTick
    \/ \E t \in ApiThreads : ApiLogin(t)
    \/ ApiLogout
    \/ \E t \in ApiThreads, op \in HttpOps, known \in BOOLEAN : ApiCallHttp(t, op, known)
    \/ \E t \in ApiThreads, op \in UrlOps : ApiCallUrl(t, op)
    \/ \E t \in ApiThreads, query \in BOOLEAN, n \in SearchSubCalls : ApiCallSearch(t, query, n)
    \/ \E t \in ApiThreads : ApiSearchGuard(t)
    \/ \E t \in ApiThreads : RateLimitRead(t)
    \/ \E t \in ApiThreads : RateLimitSleep(t)
    \/ \E t \in ApiThreads : RateLimitStamp(t)
    \/ \E t \in ApiThreads, ok \in BOOLEAN : LoginRequest(t, ok)
    \/ \E t \in ApiThreads, ok \in BOOLEAN : HttpRequest(t, ok)
    \/ \E t \in ApiThreads : SearchRequest(t)

SpecApi == Init /\ [][NextApi]_vars

\* SpecLookup: lookups on every sorted programme list of one channel, at a
\* fixed time.
InitLookup ==
    /\ EpgInit
    /\ ContentInit
    /\ AppInit
    /\ AuthInit
    /\ PlayerInit
    /\ FavInit
    /\ ImgInit
    /\ ApiInit
    /\ channel_programs \in ProgrammeLists
    /\ lookup = NoLookup
    /\ MapInit

NextLookup ==
    \/ \E ch \in ChannelIds, hours \in Hours : LookupChannelEpg(ch, hours)
    \/ \E ch \in ChannelIds, d \in ClockAdvance : LookupCurrent(ch, d)
    \/ \E ch \in ChannelIds, d \in ClockAdvance : LookupNext(ch, d)

SpecLookup == InitLookup /\ [][NextLookup]_vars

\* SpecMap: stream names are mapped against every list of channels, with and
\* without a user mapping.
InitMap ==
    /\ EpgInit
    /\ ContentInit
    /\ AppInit
    /\ AuthInit
    /\ PlayerInit
    /\ FavInit
    /\ ImgInit
    /\ ApiInit
    /\ LookupInit
    /\ channel_dict \in ChannelDicts
    /\ channel_mappings \in Mappings
    /\ mapped = NoMapped

NextMap ==
    \/ \E stream_name \in StreamNames : MapStream(stream_name)
    \/ \E mappings \in Mappings : ReloadMappings(mappings)

SpecMap == InitMap /\ [][NextMap]_vars

\* SpecImg: the UI thread and the download threads of one ImageCache,
\* interleaved statement by statement.
NextImg ==
    \/ \E url \in Urls : download_image(url)
    \/ \E url \in Urls : get_pixmap(url)
    \/ ImgClearCache
    \/ \E t \in ImgThreads : DlCheck(t)
    \/ \E t \in ImgThreads : DlUnmark(t)
    \/ \E t \in ImgThreads, outcome \in {"valid", "corrupt", "raises"} : DlFetch(t, outcome)
    \/ \E t \in ImgThreads : DlVerify(t)
    \/ \E t \in ImgThreads : DlRemoveInvalid(t)
    \/ \E t \in ImgThreads : DlExcept(t)
    \/ \E t \in ImgThreads : DlFinally(t)

SpecImg == Init /\ [][NextImg]_vars

\* SpecFav: the favorites operations, and the settings and credentials saves,
\* on every list and config file the program can start with.
InitFav ==
    /\ EpgInit
    /\ ContentInit
    /\ AppInit
    /\ AuthInit
    /\ PlayerInit
    /\ ApiInit
    /\ LookupInit
    /\ MapInit
    /\ ImgInit
    /\ config \in ConfigFiles
    /\ favorites \in FavoriteLists
    /\ (config.state # "ok" \/ config.favs = "absent") => favorites = <<>>
    /\ favCall = NoFavCall
    /\ cleanStart = DuplicateFree(favorites)

NextFav ==
    \/ \E c \in AppCalls, ok \in BOOLEAN : add_favorite(c[1], c[2], ok)
    \/ \E c \in AppCalls, ok \in BOOLEAN : remove_favorite(c[1], c[2], ok)
    \/ \E index \in 1..MaxFavs, ok \in BOOLEAN : remove_favorite_by_index(index, ok)
    \/ \E c \in AppCalls, ok \in BOOLEAN : toggle_favorite(c[1], c[2], ok)
    \/ \E series \in SeriesItems, ok \in BOOLEAN : add_series_favorite(series, ok)
    \/ \E series \in SeriesItems, ok \in BOOLEAN : remove_series_favorite(series, ok)
    \/ \E series \in SeriesItems, ok \in BOOLEAN : toggle_series_favorite(series, ok)
    \/ \E ok \in BOOLEAN : migrate_old_favorites(ok)
    \/ \E ok \in BOOLEAN : save_settings(ok)
    \/ \E ok \in BOOLEAN : save_credentials(ok)

SpecFav == InitFav /\ [][NextFav]_vars

\* SpecPlayer: play and close calls on the UI thread, and player processes
\* that end on their own.
NextPlayer ==
    \/ \E force \in BOOLEAN, exitsInTime \in BOOLEAN : close(force, exitsInTime)
    \/ \E exitsInTime \in BOOLEAN : play(exitsInTime)
    \/ \E exitsInTime \in BOOLEAN : playFails(exitsInTime)
    \/ \E pid \in Pids : ProcessExits(pid)

SpecPlayer == Init /\ [][NextPlayer]_vars

\* SpecAuth: logins and logouts from the UI thread, on every config file an
\* earlier run can have left; reads and writes of the config file succeed.
NextAuth ==
    \/ \E username \in Usernames, password \in Passwords, remember \in BOOLEAN,
          service \in {NoService} \cup Services,
          outcome \in {"missing", "accepted", "rejected", "error"} :
          login(username, password, remember, service, outcome)
    \/ logout

\* The program starts with the config file an earlier run left
InitAuth ==
    /\ EpgInit
    /\ ContentInit
    /\ AppInit
    /\ ApiInit
    /\ LookupInit
    /\ MapInit
    /\ ImgInit
    /\ FavInit
    /\ PlayerInit
    /\ session = [username |-> "", password |-> "", logged_in |-> FALSE,
                  base_url |-> DefaultUrl]
    /\ auth = NoAuth
    /\ current_service = NoService
    /\ saved \in [ServiceKeys -> {NotSaved, "u1"}]
    /\ last_service \in {NotSaved} \cup {k \in ServiceKeys : saved[k] # NotSaved}
    /\ accepted = NoAccepted
    /\ loginCall = [op |-> "none", outcome |-> "none", remember |-> FALSE]

SpecAuth == InitAuth /\ [][NextAuth]_vars

\* SpecApp: logins to the default and the configured services, logouts, API
\* requests, EPG fetches and play calls, all on the UI thread.
NextApp ==
    \/ \E username \in Usernames \ {""}, password \in Passwords \ {""},
          service \in {NoService} \cup Services, outcome \in {"accepted", "rejected"} :
          AppLogin(username, password, FALSE, service, outcome)
    \/ AppLogout
    \/ AppApiRequest
    \/ \E tier \in {"memory", "file"} : EpgCacheAges(tier)
    \/ \E responds \in BOOLEAN : AppFetchEpg(responds)
    \/ \E hasId \in BOOLEAN : AppPlay(hasId)

SpecApp == Init /\ [][NextApp]_vars

\* SpecContent: a user logs in and out, marks a favorite, selects content
\* types and categories; the pool's workers finish in any order.
NextContent ==
    \/ AppLogin("u1", "p1", FALSE, NoService, "accepted")
    \/ AppLogout
    \/ add_favorite(Live1, "live", TRUE)
    \/ \E ct \in LoadTypes \cup {"favorites"}, name \in CategoryNames :
          on_category_changed(ct, name)
    \/ \E ct \in LoadTypes : update_categories_for_type(ct)
    \/ \E i \in 1..MaxLoads : WorkerStarts(i)
    \/ \E i \in 1..MaxLoads : on_content_loaded(i)
    \/ \E i \in 1..MaxLoads : on_content_error(i)

SpecContent == Init /\ [][NextContent]_vars

---------------------------------------------------------------------------
(* Claims about the EPG cache                                              *)

\* A call of fetch_epg_data(force_refresh=False) that has returned.
ReturnedUnforced(t) == thr[t].pc = "done" /\ ~thr[t].force

\* C1: fetch_epg_data(force_refresh=False) consults memory, then the file, then
\* the server. It contacts the server only if it saw the in-memory cache empty
\* or at least 3600 s old and then the cache file missing, unreadable, at least
\* 86400 s old or holding empty data; a call that saw a valid memory cache
\* returns it without looking at the file, a call that saw a stale memory cache
\* and a valid file returns the file's data, and neither contacts the server.
C1_TiersInOrder ==
    \A t \in Threads :
        /\ (~thr[t].force /\ thr[t].contacted) =>
               thr[t].memSeen = "miss" /\ thr[t].fileSeen = "miss"
        /\ ReturnedUnforced(t) =>
               /\ thr[t].memSeen # "unseen"
               /\ thr[t].memSeen = "hit" =>
                      /\ thr[t].fileSeen = "unseen"
                      /\ ~thr[t].contacted
                      /\ thr[t].result = thr[t].expected
                      /\ thr[t].result # Empty
               /\ thr[t].memSeen = "miss" =>
                      /\ thr[t].fileSeen # "unseen"
                      /\ thr[t].fileSeen = "hit" =>
                             /\ ~thr[t].contacted
                             /\ thr[t].result = thr[t].expected
                             /\ thr[t].result # Empty

\* C1 witness: a call made when the memory cache had expired was served from a
\* cache file written earlier, without a request.
C1_Witness ==
    \E t \in Threads :
        /\ ReturnedUnforced(t)
        /\ thr[t].memSeen = "miss"
        /\ thr[t].fileSeen = "hit"
        /\ ~thr[t].contacted
        /\ thr[t].result # Empty
        /\ now - fetchedAt[thr[t].result] >= epg_cache_duration

\* C2 (as claimed): data returned by fetch_epg_data(force_refresh=False) was
\* fetched from the server less than file_cache_duration (24 h) before the call
\* that returns it.
C2_ServedWithinFileTtl ==
    \A t \in Threads :
        (ReturnedUnforced(t) /\ thr[t].result # Empty) =>
            thr[t].callTime - fetchedAt[thr[t].result] < file_cache_duration

\* C3: after clear_cache has returned True (no fetch in flight) and before the
\* next fetch, the memory cache, channels and programs are empty and there is no
\* cache file; the next unforced fetch with credentials contacts the server;
\* and no fetch ever returns a result obtained before the clear.
C3_ClearForgets ==
    /\ (ui.pc = "idle" /\ ui.ret = "True" /\ sinceClear = "cleared") =>
           /\ epg_cache = Empty
           /\ channels = Empty
           /\ programs = Empty
           /\ ~cache_file.exists
    /\ \A t \in Threads :
           /\ (ReturnedUnforced(t) /\ thr[t].afterClear /\ thr[t].creds) =>
                  thr[t].contacted
           /\ (thr[t].pc = "done" /\ thr[t].result # Empty) =>
                  thr[t].result >= clearedBelow

\* C3 witness: data had been fetched, the cache was cleared, and the first fetch
\* after the clear went to the server and returned a new result.
C3_Witness ==
    \E t \in Threads :
        /\ ReturnedUnforced(t)
        /\ thr[t].afterClear
        /\ thr[t].contacted
        /\ clearedBelow > 1
        /\ thr[t].result >= clearedBelow

\* Two stored values stem from the same fetch result (an empty one stems from none).
SameResult(a, b) == a = Empty \/ b = Empty \/ a = b

\* C4 (as claimed): channels, programs and epg_cache always stem from one and
\* the same fetch result, whatever the interleaving of fetch threads and
\* clear_cache.
C4_OneFetchResult ==
    /\ SameResult(channels, programs)
    /\ SameResult(channels, epg_cache)
    /\ SameResult(programs, epg_cache)

---------------------------------------------------------------------------
(* Claims about the ApiClient                                              *)

\* C5 (as claimed): any two HTTP requests issued through one ApiClient start
\* at least request_delay apart, also when worker threads call it together.
C5_RequestsSpaced == lastGap = NoTime \/ lastGap >= request_delay

\* C6: a call made while logged_in is False returns [] (get_categories,
\* get_live_streams, get_vod_streams, get_series, search) or None
\* (get_series_info, get_vod_info, get_*_stream_url) and issues no HTTP
\* request: it has returned so, and no such call is inside the rate limiter or
\* a request.
C6_LoggedOutNoRequest ==
    /\ (lastCall.op \in ListOps /\ ~lastCall.li) =>
           lastCall.ret = "EmptyList" /\ ~lastCall.requested
    /\ (lastCall.op \in InfoOps \cup UrlOps /\ ~lastCall.li) =>
           lastCall.ret = "None" /\ ~lastCall.requested
    /\ \A t \in ApiThreads :
           (api[t].pc # "idle" /\ api[t].op # "login") => api[t].li

\* C6 witness: after a logout ended a session, get_vod_info was called and
\* returned None without a request.
C6_Witness ==
    /\ loggedOut
    /\ ~logged_in
    /\ lastCall = [op |-> "get_vod_info", li |-> FALSE, ret |-> "None", requested |-> FALSE]

---------------------------------------------------------------------------
(* Claims about the lookups                                                *)

\* The programmes of channel ch: those of KnownId, none for any other id
StoredOf(ch) == IF ch = KnownId THEN channel_programs ELSE <<>>

\* The k-th smallest member of a set of indices
Nth(idx, k) == CHOOSE i \in idx : Cardinality({j \in idx : j < i}) = k - 1

\* C7: get_current_program(ch) returns a programme p of ch with
\* p.start_timestamp <= now <= p.stop_timestamp, the earliest-starting such
\* programme, and None exactly when ch is empty or unknown or no programme of
\* ch satisfies the condition (now: the clock read of get_current_program).
C7_CurrentProgram ==
    lookup.op = "get_current_program" =>
        LET stored == StoredOf(lookup.ch)
            cur == {i \in 1..Len(stored) :
                       /\ stored[i].start_timestamp <= lookup.t1
                       /\ lookup.t1 <= stored[i].stop_timestamp}
        IN /\ lookup.ret.kind \in {"None", "Programme"}
           /\ lookup.ret.kind = "None" <=> cur = {}
           /\ lookup.ret.kind = "Programme" =>
                 \E i \in cur :
                    /\ lookup.ret.value = <<stored[i]>>
                    /\ \A j \in cur : stored[i].start_timestamp <= stored[j].start_timestamp

\* C7 witness: of two programmes on air, one of them since this very second,
\* the one that started earlier was returned.
C7_Witness ==
    /\ lookup.op = "get_current_program"
    /\ lookup.ch = KnownId
    /\ Len(channel_programs) = 2
    /\ channel_programs[1].start_timestamp < channel_programs[2].start_timestamp
    /\ channel_programs[2].start_timestamp = lookup.t1
    /\ \A i \in 1..2 : channel_programs[i].stop_timestamp >= lookup.t1
    /\ lookup.ret = [kind |-> "Programme", value |-> <<channel_programs[1]>>]

\* C8 (as claimed), for a call during which the clock does not advance:
\* get_next_program(ch) returns the programme of ch with the smallest
\* start_timestamp that is > now and <= now + 12 h, and None exactly when ch
\* has no programme starting in that interval.
C8_NextProgram ==
    (lookup.op = "get_next_program" /\ lookup.t0 = lookup.t1) =>
        LET stored == StoredOf(lookup.ch)
            nxt == {i \in 1..Len(stored) :
                       /\ stored[i].start_timestamp > lookup.t1
                       /\ stored[i].start_timestamp <= lookup.t1 + 12 * 3600}
        IN /\ lookup.ret.kind = "None" <=> nxt = {}
           /\ lookup.ret.kind = "Programme" =>
                 \E i \in nxt :
                    /\ lookup.ret.value = <<stored[i]>>
                    /\ \A j \in nxt : stored[i].start_timestamp <= stored[j].start_timestamp

\* C9: get_channel_epg(ch, hours) returns exactly the programmes of ch with
\* start_timestamp <= now + hours*3600 and stop_timestamp >= now, in their
\* stored order, and the empty list when ch is empty or has no entry.
C9_ChannelEpg ==
    lookup.op = "get_channel_epg" =>
        LET stored == StoredOf(lookup.ch)
            idx == {i \in 1..Len(stored) :
                       /\ stored[i].start_timestamp <= lookup.t0 + lookup.hours * 3600
                       /\ stored[i].stop_timestamp >= lookup.t0}
            got == lookup.ret.value
        IN /\ lookup.ret.kind = "List"
           /\ Len(got) = Cardinality(idx)
           /\ \A k \in 1..Len(got) : got[k] = stored[Nth(idx, k)]

\* C9 witness: of two programmes, the one that stops now and starts before the
\* end of the window was returned, the one that starts after the window not.
C9_Witness ==
    /\ lookup.op = "get_channel_epg"
    /\ lookup.ch = KnownId
    /\ lookup.hours = 1
    /\ Len(channel_programs) = 2
    /\ channel_programs[1].stop_timestamp = lookup.t0
    /\ channel_programs[2].start_timestamp = lookup.t0 + 3600 + 1
    /\ channel_programs[2].stop_timestamp > lookup.t0
    /\ lookup.ret = [kind |-> "List", value |-> <<channel_programs[1]>>]

---------------------------------------------------------------------------
(* Claims about map_stream_to_epg                                          *)

\* The channels that have a name
Named == {i \in 1..Len(channel_dict) : channel_dict[i].name # NoneName}

\* Channels whose cleaned name equals the cleaned stream name
CleanedMatches(stream_name) ==
    {i \in Named : Clean(Lower(channel_dict[i].name)) = Clean(Lower(stream_name))}

ScoreOf(stream_name, i) ==
    Score(Clean(Lower(stream_name)), Clean(Lower(channel_dict[i].name)))

\* Channels one of whose cleaned names contains the other, with a score above 0.5
PartialMatches(stream_name) ==
    {i \in Named :
        /\ \/ Contains(Clean(Lower(channel_dict[i].name)), Clean(Lower(stream_name)))
           \/ Contains(Clean(Lower(stream_name)), Clean(Lower(channel_dict[i].name)))
        /\ AboveHalf(ScoreOf(stream_name, i))}

IsIdOf(ret, candidates) ==
    ret.kind = "Id" /\ \E i \in candidates : ret.id = channel_dict[i].id

\* C10 (as claimed): map_stream_to_epg returns the mapped id when the stream
\* name is a key of the user mappings, whatever the channels; otherwise an
\* exact case-insensitive name match before any cleaned-name or partial match,
\* a cleaned-name equality before any partial match, a partial match only
\* with a score above 0.5 that is the highest among the candidates; None
\* otherwise.
C10_MappingPrecedence ==
    mapped.stream # <<>> =>
        LET s == mapped.stream
            exact == ExactMatches(s)
            cleaned == CleanedMatches(s)
            partial == PartialMatches(s)
            best == {i \in partial :
                        \A j \in partial : ~Greater(ScoreOf(s, j), ScoreOf(s, i))}
        IN IF \E m \in mapped.mappings : m[1] = s
           THEN \E m \in mapped.mappings : m[1] = s /\ mapped.ret = ReturnId(m[2])
           ELSE IF exact # {} THEN IsIdOf(mapped.ret, exact)
           ELSE IF cleaned # {} THEN IsIdOf(mapped.ret, cleaned)
           ELSE IF partial # {} THEN IsIdOf(mapped.ret, best)
           ELSE mapped.ret = NoId

---------------------------------------------------------------------------
(* Claims about the ImageCache                                             *)

\* C11 (as claimed): at most one download thread per URL is in flight at any
\* time (a thread that has reached its final clean-up is not counted).
C11_OneDownloadPerUrl ==
    \A url \in Urls : Cardinality({t \in InFlight(url) : dl[t].pc # "finally"}) <= 1

---------------------------------------------------------------------------
(* Claims about the favorites                                              *)

\* C12: starting from a duplicate-free list, after any sequence of adds,
\* removes and toggles the favorites list holds at most one entry per item
\* (same family live / vod / series+full_series / episode, same id), and
\* adding an item that is already a favorite leaves the list unchanged.
C12_NoDuplicateFavorites ==
    /\ cleanStart => DuplicateFree(favorites)
    /\ (favCall.op \in {"add_favorite", "add_series_favorite"} /\ favCall.wasFav)
           => favCall.unchanged

\* A series that is a favorite under 'series' was added again as a full
\* series, next to another favorite.
C12_Witness ==
    /\ cleanStart
    /\ favCall.op = "add_series_favorite"
    /\ favCall.wasFav
    /\ Len(favorites) = MaxFavs
    /\ \E i \in 1..Len(favorites) : favorites[i] = Favorite("series", Ser1)

FavOps ==
    {"add_favorite", "remove_favorite", "remove_favorite_by_index", "toggle_favorite",
     "add_series_favorite", "remove_series_favorite", "toggle_series_favorite",
     "migrate_old_favorites"}

\* The entries of the config file other than 'favorites'
OtherEntries(file) == <<file.settings, file.credentials, file.last_service>>

C19_ToggleToggles ==
    (cleanStart /\ favCall.op = "toggle_favorite")
        => /\ favCall.nowFav = (favCall.ret = "True")
           /\ favCall.nowFav = ~favCall.wasFav

\* C20: migrate_old_favorites keeps every favorite: same length, entries in
\* the old format replaced in place by entries in the new format, entries in
\* the new format unchanged, and nothing left to migrate afterwards.
C20_MigrationKeepsAll ==
    [][favCall'.op = "migrate_old_favorites"
          => /\ Len(favorites') = Len(favorites)
             /\ \A i \in 1..Len(favorites) :
                    i <= Len(favorites')
                        => /\ ~OldFormat(favorites'[i])
                           /\ favorites'[i].item = favorites[i].item
                           /\ ~OldFormat(favorites[i]) => favorites'[i] = favorites[i]
             /\ AfterMigrate(favorites') = favorites']_vars

---------------------------------------------------------------------------
(* Claims about the player                                                 *)

\* C14: after any sequence of play and close calls at most one player
\* process started by QtVlcPlayer is running.
C14_OnePlayerProcess ==
    Cardinality({pid \in Pids : Alive(pid)}) <= 1

---------------------------------------------------------------------------
(* Claims about failed EPG fetches                                         *)

\* A step of thread t inside a server fetch that has failed or fails with
\* this step: it leaves _fetch_epg_from_server with no data
FailedFetchStep(t) ==
    /\ thr[t].pc \in {"server", "sv_save"}
    /\ thr'[t] # thr[t]
    /\ thr'[t].pc \in {"sv_save", "done"}
    /\ thr'[t].data = Empty

\* C15: a server fetch that fails (missing credentials, failed request,
\* response that does not parse) returns an empty result and leaves
\* epg_cache, channels, programs and the cache file as they were.
C15_FailedFetchKeepsCache ==
    [][\A t \in Threads :
          FailedFetchStep(t)
              => /\ thr'[t].pc = "done" => thr'[t].result = Empty
                 /\ UNCHANGED <<epg_cache, channels, programs, cache_file>>]_vars

\* C16: a background fetch that ends without EPG data emits epg_error and
\* not epg_loaded; epg_loaded is emitted only for a fetch that produced data.
C16_NoDataMeansError ==
    emitted.signal # "none" => (emitted.empty <=> emitted.signal = "epg_error")

---------------------------------------------------------------------------
(* Claims about login                                                      *)

\* C17: a login attempt that fails (the server rejects the credentials or
\* the request raises) changes no session state (username,
\* password, logged_in and base_url of the client, auth and current_service
\* of the manager), so whenever logged_in is True the client's credentials
\* and server are those the last successful login was accepted with.
C17_FailedLoginChangesNothing ==
    /\ [][(loginCall'.op = "login" /\ loginCall'.outcome \in {"rejected", "error"})
             => UNCHANGED <<session, auth, current_service>>]_vars
    /\ [](session.logged_in
             => accepted = [username |-> session.username, password |-> session.password,
                            base_url |-> session.base_url])

\* C18: a successful login with remember=False removes the saved credentials
\* of the service logged into and leaves those of every other service as
\* they were.
C18_ForgetOnlyThisService ==
    [][(loginCall'.op = "login" /\ loginCall'.outcome = "accepted" /\ ~loginCall'.remember)
          => /\ saved'[ServiceKey(current_service')] = NotSaved
             /\ \A k \in ServiceKeys \ {ServiceKey(current_service')} : saved'[k] = saved[k]]_vars

---------------------------------------------------------------------------
(* Claims about the session across the managers                            *)

\* C21: after a successful login with a service in effect, every API
\* request, EPG request and fallback stream URL addresses that service's
\* host and protocol.
C21_AllAddressTheService ==
    (/\ loginCall.op = "login"
     /\ loginCall.outcome = "accepted"
     /\ current_service # NoService
     /\ lastUse.kind \in {"api", "epg_request", "play", "fallback"}
     /\ lastUse.ret)
        => lastUse.address = ServiceAddress(current_service)

\* C22: EPG data returned by a fetch belongs to the service and account of
\* the session that asks for it, never to an earlier one.
C22_EpgOfThisSession ==
    (lastUse.kind \in {"epg_request", "epg_cache"} /\ lastUse.data # NoData)
        => lastUse.data = EpgData(current_service, auth.username)

\* C23: after logout, until the next successful login, a play call for an
\* item without stored URL returns False and uses no credentials.
C23_NoPlayAfterLogout ==
    (loginCall.op = "logout" /\ lastUse.kind \in {"play", "fallback"})
        => (~lastUse.ret /\ lastUse.user = "")

---------------------------------------------------------------------------
(* Claims about content loading                                            *)

\* C24: once the load of the most recently requested category has
\* delivered, the stored content_items and the items the panel shows are
\* the items of that category, and the panel's content_type is the current
\* content_type: no earlier load's result has replaced them.
C24_LatestLoadShown ==
    category_request.status = "loaded"
        => /\ content_items = panel.items
           /\ panel.content_type = category_request.content_type
           /\ panel.content_type = app_content_type
           /\ content_items \in {ItemsOf(category_request.content_type, category_request.category), <<>>}

====
